---- MODULE Spec2Model ----
(***************************************************************************)
(* Univariate drift detection methods of nannyml                           *)
(* (src/nannyml/drift/univariate/methods.py): the MethodFactory registry,  *)
(* the Method life cycle (construction, fit, calculate, alert, equality)   *)
(* and the six built-in methods; the calculators of src/nannyml/base.py    *)
(* and src/nannyml/data_quality; the runner of src/nannyml/runner.py.      *)
(*                                                                         *)
(* Conventions.                                                            *)
(*  - A pandas column is a record [dtype, runs]: runs is the column in     *)
(*    run-length form, a sequence of [v, n] (n >= 1 consecutive rows of    *)
(*    value v).  Values are integers; NaN is the missing value.            *)
(*  - A float is an integer number of 1/Scale units (rounded towards 0).   *)
(*  - An Optional / a possibly missing attribute is Unset (the attribute   *)
(*    was never assigned), None, or Some(v).                               *)
(*  - An operation on an instance returns [st, m, v]: st is "ok" or the    *)
(*    name of the exception raised, m the instance afterwards, v the       *)
(*    value returned.                                                      *)
(***************************************************************************)
EXTENDS Integers, Sequences, FiniteSets, TLC

VARIABLES registry, m, other, last, hist, frame, calc, run

vars == <<registry, m, other, last, hist, frame, calc, run>>

\* a Method.fit call in progress, a calculator, a run of the runner
rest == <<frame, calc, run>>

----------------------------------------------------------------------------
(* Bounds of the model *)

\* rows of one value in an input column: 0, 1 or MaxCount
MaxCount == 4
\* resolution of the fixed-point numbers: units per 1.0
Scale == 1000
\* the chunker cuts a frame into MaxChunks chunks
MaxChunks == 2
\* bins the 'doane' estimator may choose: 1..MaxBins
MaxBins == 2
\* rows of one value in a long input column
MaxRows == 20
\* distinct values of the widest input column
MaxRuns == 51
\* the numbers of the columns binned by WassersteinDistance: 0..MaxValue
MaxValue == 5

----------------------------------------------------------------------------
(* Optional values and missing attributes *)

Unset == [tag |-> "unset"]
None == [tag |-> "none"]
Some(v) == [tag |-> "val", v |-> v]
IsSome(o) == o.tag = "val"

NaN == -1

----------------------------------------------------------------------------
(* FeatureType and the classes *)

CONTINUOUS == "continuous"
CATEGORICAL == "categorical"
FeatureType == {CONTINUOUS, CATEGORICAL}

BuiltinClasses == {"JensenShannonDistance", "KolmogorovSmirnovStatistic", "Chi2Statistic", "LInfinityDistance", "WassersteinDistance", "HellingerDistance"}

\* a Method subclass defined by the user of the library and registered
\* under the key 'custom'
CustomClass == "CustomMethod"

Classes == BuiltinClasses \cup {CustomClass}

ClassKeys == [c \in BuiltinClasses |-> CASE c = "JensenShannonDistance" -> "jensen_shannon" [] c = "KolmogorovSmirnovStatistic" -> "kolmogorov_smirnov" [] c = "Chi2Statistic" -> "chi2" [] c = "LInfinityDistance" -> "l_infinity" [] c = "WassersteinDistance" -> "wasserstein" [] OTHER -> "hellinger"]

----------------------------------------------------------------------------
(* Columns in run-length form *)

RECURSIVE NRows(_)
\* len(column)
NRows(runs) == IF runs = <<>> THEN 0 ELSE Head(runs).n + NRows(Tail(runs))

RECURSIVE CountBelow(_, _, _)
\* number of rows whose value v satisfies v * den < x (never a NaN row)
CountBelow(runs, x, den) == IF runs = <<>> THEN 0 ELSE (IF Head(runs).v # NaN /\ Head(runs).v * den < x THEN Head(runs).n ELSE 0) + CountBelow(Tail(runs), x, den)

RECURSIVE CountOf(_, _)
\* (column == v).sum()
CountOf(runs, v) == IF runs = <<>> THEN 0 ELSE (IF Head(runs).v = v THEN Head(runs).n ELSE 0) + CountOf(Tail(runs), v)

\* the distinct values of a column
UniqueVals(runs) == {runs[i].v : i \in DOMAIN runs}

RECURSIVE Slice(_, _, _)
\* rows a .. b-1 (counted from 0) of a column
Slice(runs, a, b) == IF runs = <<>> \/ b <= 0 \/ a >= b THEN <<>> ELSE LET h == Head(runs) IN IF a >= h.n THEN Slice(Tail(runs), a - h.n, b - h.n) ELSE LET take == (IF b < h.n THEN b ELSE h.n) - (IF a > 0 THEN a ELSE 0) IN <<[v |-> h.v, n |-> take]>> \o Slice(Tail(runs), 0, b - h.n)

SetMin(S) == CHOOSE x \in S : \A y \in S : x <= y

SetMax(S) == CHOOSE x \in S : \A y \in S : x >= y

RECURSIVE SortedSeq(_)
\* the elements of a finite set of integers in ascending order
SortedSeq(S) == IF S = {} THEN <<>> ELSE <<SetMin(S)>> \o SortedSeq(S \ {SetMin(S)})

Abs(x) == IF x < 0 THEN -x ELSE x

\* a sequence, a dictionary: the function with every element computed
Array(f) == f \o <<>>
Dict(f) == f @@ <<>>

\* a local variable: F of the value v, computed once
With(v, F(_)) == F(v)

\* a / b as a fixed-point number
Ratio(a, b) == (a * Scale) \div b

\* _remove_missing_data: dropna().reset_index(drop=True)
RemoveMissingData(col) == [col EXCEPT !.runs = SelectSeq(col.runs, LAMBDA r : r.v # NaN)]

\* _column_is_categorical
ColumnIsCategorical(col) == col.dtype \in {"object", "string", "category", "bool"}

----------------------------------------------------------------------------
(* Construction *)

\* calculation_method / n_bins when the caller gave none, and the reference
\* size from which 'auto' estimates
DefaultNBins == 10000
AutoLimit == 10000

\* dict.get(k, default)
Get(d, k, default) == IF k \in DOMAIN d THEN d[k] ELSE default

\* no instance
NoInstance == [cls |-> "<none>"]

\* Method.__init__: the attributes every instance has; the attributes a
\* subclass only annotates do not exist yet (Unset)
MethodInit(cls, display_name, column_name, kwargs, upper_threshold_limit, lower_threshold_limit) == [cls |-> cls, display_name |-> display_name, column_name |-> column_name, threshold |-> kwargs.threshold, upper_threshold_value |-> None, lower_threshold_value |-> None, lower_threshold_value_limit |-> lower_threshold_limit, upper_threshold_value_limit |-> upper_threshold_limit, chunker |-> kwargs.chunker, _fitted |-> Unset, calculation_method |-> Unset, n_bins |-> Unset, _reference_data |-> Unset, _reference_size |-> Unset, _qts |-> Unset, _ref_rel_freqs |-> Unset, _bin_edges |-> Unset, _bin_width |-> Unset, _reference_data_vcs |-> Unset, _p_value |-> Unset, _reference_proba |-> Unset, _treat_as_type |-> Unset, _bins |-> Unset, _reference_proba_in_bins |-> Unset]

\* the choice of calculation_method and n_bins in
\* KolmogorovSmirnovStatistic.__init__ and WassersteinDistance.__init__
ComputationParams(column_name, kwargs) == IF "computation_params" \notin DOMAIN kwargs \/ column_name \notin DOMAIN kwargs.computation_params THEN [calculation_method |-> "auto", n_bins |-> DefaultNBins] ELSE [calculation_method |-> Get(kwargs.computation_params, "calculation_method", "auto"), n_bins |-> Get(kwargs.computation_params, "n_bins", DefaultNBins)]

JensenShannonDistanceInit(kwargs) == MethodInit("JensenShannonDistance", "Jensen-Shannon distance", "jensen_shannon", kwargs, None, Some(0))

KolmogorovSmirnovStatisticInit(kwargs) == [MethodInit("KolmogorovSmirnovStatistic", "Kolmogorov-Smirnov statistic", "kolmogorov_smirnov", kwargs, Some(Scale), Some(0)) EXCEPT !._reference_data = None, !._ref_rel_freqs = None, !._fitted = Some(FALSE), !.calculation_method = Some(ComputationParams("kolmogorov_smirnov", kwargs).calculation_method), !.n_bins = Some(ComputationParams("kolmogorov_smirnov", kwargs).n_bins)]

\* Chi2Statistic.__init__ giving the p-value a default of 0.0
Chi2StatisticInitDefaultP(kwargs) == [MethodInit("Chi2Statistic", "Chi2 statistic", "chi2", kwargs, Some(Scale), Some(0)) EXCEPT !._fitted = Some(FALSE), !._p_value = Some(0)]

Chi2StatisticInit(kwargs) == [MethodInit("Chi2Statistic", "Chi2 statistic", "chi2", kwargs, Some(Scale), Some(0)) EXCEPT !._fitted = Some(FALSE)]

LInfinityDistanceInit(kwargs) == [MethodInit("LInfinityDistance", "L-Infinity distance", "l_infinity", kwargs, None, Some(0)) EXCEPT !._reference_proba = None]

WassersteinDistanceInit(kwargs) == [MethodInit("WassersteinDistance", "Wasserstein distance", "wasserstein", kwargs, None, Some(0)) EXCEPT !._reference_data = None, !._ref_rel_freqs = None, !._fitted = Some(FALSE), !.calculation_method = Some(ComputationParams("wasserstein", kwargs).calculation_method), !.n_bins = Some(ComputationParams("wasserstein", kwargs).n_bins)]

HellingerDistanceInit(kwargs) == MethodInit("HellingerDistance", "Hellinger distance", "hellinger", kwargs, None, Some(0))

\* a user-defined subclass written like the built-in ones: a replacement of
\* the chi2 statistic that keeps its display name under an own column name
CustomMethodInit(kwargs) == MethodInit(CustomClass, "Chi2 statistic", "custom", kwargs, None, None)

\* method_class(**kwargs)
New(method_class, kwargs) == CASE method_class = "JensenShannonDistance" -> JensenShannonDistanceInit(kwargs) [] method_class = "KolmogorovSmirnovStatistic" -> KolmogorovSmirnovStatisticInit(kwargs) [] method_class = "Chi2Statistic" -> Chi2StatisticInit(kwargs) [] method_class = "LInfinityDistance" -> LInfinityDistanceInit(kwargs) [] method_class = "WassersteinDistance" -> WassersteinDistanceInit(kwargs) [] method_class = "HellingerDistance" -> HellingerDistanceInit(kwargs) [] OTHER -> CustomMethodInit(kwargs)

----------------------------------------------------------------------------
(* MethodFactory *)

\* a key given to create: a string, or something else (v is then its repr)
StrKey(s) == [type |-> "str", v |-> s]
IntKey(s) == [type |-> "int", v |-> s]

\* register replacing the whole entry of the key on a re-registration
RegisterOpWholeKey(reg, key, feature_type, wrapped_class) == IF key \notin DOMAIN reg THEN [registry |-> (key :> (feature_type :> wrapped_class)) @@ reg, warned |-> FALSE] ELSE IF feature_type \notin DOMAIN reg[key] THEN [registry |-> [reg EXCEPT ![key] = (feature_type :> wrapped_class) @@ @], warned |-> FALSE] ELSE [registry |-> [reg EXCEPT ![key] = (feature_type :> wrapped_class)], warned |-> TRUE]

\* MethodFactory.register(key, feature_type)(wrapped_class): the registry
\* afterwards and whether the warning was logged
RegisterOp(reg, key, feature_type, wrapped_class) == IF key \notin DOMAIN reg THEN [registry |-> (key :> (feature_type :> wrapped_class)) @@ reg, warned |-> FALSE] ELSE IF feature_type \notin DOMAIN reg[key] THEN [registry |-> [reg EXCEPT ![key] = (feature_type :> wrapped_class) @@ @], warned |-> FALSE] ELSE [registry |-> [reg EXCEPT ![key] = [@ EXCEPT ![feature_type] = wrapped_class]], warned |-> TRUE]

\* the decorators with Chi2Statistic registered for continuous features too
BuiltinRegistrationsChi2Both == << <<"jensen_shannon", CATEGORICAL, "JensenShannonDistance">>, <<"jensen_shannon", CONTINUOUS, "JensenShannonDistance">>, <<"kolmogorov_smirnov", CONTINUOUS, "KolmogorovSmirnovStatistic">>, <<"chi2", CATEGORICAL, "Chi2Statistic">>, <<"chi2", CONTINUOUS, "Chi2Statistic">>, <<"l_infinity", CATEGORICAL, "LInfinityDistance">>, <<"wasserstein", CONTINUOUS, "WassersteinDistance">>, <<"hellinger", CATEGORICAL, "HellingerDistance">>, <<"hellinger", CONTINUOUS, "HellingerDistance">> >>

\* the @MethodFactory.register decorators of the module, in the order
\* Python applies them (the decorator nearest to the class first)
BuiltinRegistrations == << <<"jensen_shannon", CATEGORICAL, "JensenShannonDistance">>, <<"jensen_shannon", CONTINUOUS, "JensenShannonDistance">>, <<"kolmogorov_smirnov", CONTINUOUS, "KolmogorovSmirnovStatistic">>, <<"chi2", CATEGORICAL, "Chi2Statistic">>, <<"l_infinity", CATEGORICAL, "LInfinityDistance">>, <<"wasserstein", CONTINUOUS, "WassersteinDistance">>, <<"hellinger", CATEGORICAL, "HellingerDistance">>, <<"hellinger", CONTINUOUS, "HellingerDistance">> >>

RECURSIVE RegisterAll(_, _)
RegisterAll(reg, regs) == IF regs = <<>> THEN reg ELSE RegisterAll(RegisterOp(reg, regs[1][1], regs[1][2], regs[1][3]).registry, Tail(regs))

\* MethodFactory.registry once the module is imported
ImportedRegistry == RegisterAll(<<>>, BuiltinRegistrations)

\* create without the check of the feature type: a key registered for
\* another feature type gives the class registered for that one
CreateOpAnyFeatureType(reg, key, feature_type, kwargs) == IF key.type # "str" THEN [st |-> "InvalidArgumentsException", cls |-> "", m |-> NoInstance] ELSE IF key.v \notin DOMAIN reg THEN [st |-> "InvalidArgumentsException", cls |-> "", m |-> NoInstance] ELSE LET ft == IF feature_type \in DOMAIN reg[key.v] THEN feature_type ELSE CHOOSE f \in DOMAIN reg[key.v] : TRUE IN [st |-> "ok", cls |-> reg[key.v][ft], m |-> New(reg[key.v][ft], kwargs)]

\* MethodFactory.create(key, feature_type, **kwargs)
CreateOp(reg, key, feature_type, kwargs) == IF key.type # "str" THEN [st |-> "InvalidArgumentsException", cls |-> "", m |-> NoInstance] ELSE IF key.v \notin DOMAIN reg THEN [st |-> "InvalidArgumentsException", cls |-> "", m |-> NoInstance] ELSE IF feature_type \notin DOMAIN reg[key.v] THEN [st |-> "InvalidArgumentsException", cls |-> "", m |-> NoInstance] ELSE [st |-> "ok", cls |-> reg[key.v][feature_type], m |-> New(reg[key.v][feature_type], kwargs)]

----------------------------------------------------------------------------
(* Collaborators: the chunker and the threshold evaluator *)

\* Chunker.split(data): consecutive slices of the rows, in order; the
\* chunker cuts the frame into chunk_number slices of equal size (the last
\* one may be shorter); an empty frame has no chunk
Split(chunker, runs) == LET n == NRows(runs) size == (n + chunker.chunk_number - 1) \div chunker.chunk_number IN IF n = 0 THEN <<>> ELSE Array([i \in 1..((n + size - 1) \div size) |-> Slice(runs, (i - 1) * size, i * size)])

\* the values of a sequence that are numbers (not the float nan)
Numbers(data) == {data[i] : i \in DOMAIN data} \ {NaN}

\* an optional value kept within the hard limits
ClipToLimits(o, lower_limit, upper_limit) == IF ~IsSome(o) THEN None ELSE LET a == IF IsSome(lower_limit) /\ o.v < lower_limit.v THEN lower_limit.v ELSE o.v b == IF IsSome(upper_limit) /\ a > upper_limit.v THEN upper_limit.v ELSE a IN Some(b)

\* calculate_threshold_values(threshold, data, lower_threshold_value_limit,
\* upper_threshold_value_limit): a constant strategy returns its own bounds,
\* a data-driven strategy (kind "envelope") the smallest and largest
\* reference value; both clipped to the limits
CalculateThresholdValues(threshold, data, lower_limit, upper_limit) == LET raw == IF threshold.kind = "constant" THEN <<threshold.lower, threshold.upper>> ELSE IF Numbers(data) = {} THEN <<None, None>> ELSE <<Some(SetMin(Numbers(data))), Some(SetMax(Numbers(data)))>> IN <<ClipToLimits(raw[1], lower_limit, upper_limit), ClipToLimits(raw[2], lower_limit, upper_limit)>>

----------------------------------------------------------------------------
(* Results of an operation on an instance *)

Ok(m0, v) == [st |-> "ok", m |-> m0, v |-> Some(v)]
Raise(exc, m0) == [st |-> exc, m |-> m0, v |-> None]

RECURSIVE SumTuple(_)
SumTuple(q) == IF q = <<>> THEN 0 ELSE Head(q) + SumTuple(Tail(q))

\* np.sum
SumSeq(q) == SumTuple(Array(q))

RECURSIVE CumSum(_, _)
\* np.cumsum, started from acc
CumSum(q, acc) == IF q = <<>> THEN <<>> ELSE <<acc + Head(q)>> \o CumSum(Tail(q), acc + Head(q))

\* number of rows with value <= x / den, > and < likewise (NaN rows never count)
CountLE(runs, x, den) == CountBelow(runs, x + 1, den)

\* np.histogram(column, bins=edges): edges is [den, e], the edge values
\* being e[i] / den; every bin is half-open but the last, which is closed
Histogram(runs, edges) == LET nb == Len(edges.e) - 1 cum == Array([i \in 1..(nb + 1) |-> IF i <= nb THEN CountBelow(runs, edges.e[i], edges.den) ELSE CountLE(runs, edges.e[i], edges.den)]) IN Array([i \in 1..nb |-> cum[i + 1] - cum[i]])

\* np.linspace(lo, hi, n + 1) as [den, e]
Linspace(lo, hi, n) == [den |-> n, e |-> Array([i \in 1..(n + 1) |-> lo * n + (i - 1) * (hi - lo)])]

----------------------------------------------------------------------------
(* LInfinityDistance *)

\* LInfinityDistance._fit
LInfinityDistanceFit(m0, reference_data) == LET ref == RemoveMissingData(reference_data).runs IN Ok([m0 EXCEPT !._reference_proba = Some(Dict([label \in UniqueVals(ref) |-> Ratio(CountOf(ref, label), NRows(ref))]))], 0)

\* _calculate comparing the differences with their sign
LInfinityDistanceCalculateSigned(m0, data0) == IF m0._reference_proba = None THEN Raise("NotFittedException", m0) ELSE LET data == RemoveMissingData(data0).runs data_ratios == Dict([label \in UniqueVals(data) |-> Ratio(CountOf(data, label), NRows(data))]) union_labels == DOMAIN m0._reference_proba.v \cup UniqueVals(data) differences == {Get(m0._reference_proba.v, label, 0) - Get(data_ratios, label, 0) : label \in union_labels} IN IF union_labels = {} THEN Raise("ValueError", m0) ELSE Ok(m0, SetMax(differences))

\* LInfinityDistance._calculate
LInfinityDistanceCalculate(m0, data0) == IF m0._reference_proba = None THEN Raise("NotFittedException", m0) ELSE LET data == RemoveMissingData(data0).runs data_ratios == Dict([label \in UniqueVals(data) |-> Ratio(CountOf(data, label), NRows(data))]) union_labels == DOMAIN m0._reference_proba.v \cup UniqueVals(data) differences == {Abs(Get(m0._reference_proba.v, label, 0) - Get(data_ratios, label, 0)) : label \in union_labels} IN IF union_labels = {} THEN Raise("ValueError", m0) ELSE Ok(m0, SetMax(differences))

----------------------------------------------------------------------------
(* Chi2Statistic *)

\* value_counts().loc[lambda v: v != 0] of a column without missing values
ValueCounts(runs) == Dict([label \in UniqueVals(runs) |-> CountOf(runs, label)])

\* the survival function of the chi-squared distribution with dof degrees
\* of freedom at stat, rounded down to one of 0.5, 0.1, 0.05, 0.01, 0.001, 0
\* (the quantiles of the distribution, in thousandths)
Chi2Sf(stat, dof) ==
    LET q == CASE dof = 1 -> <<455, 2706, 3841, 6635, 10828>>
               [] dof = 2 -> <<1386, 4605, 5991, 9210, 13816>>
               [] OTHER -> <<2366, 6251, 7815, 11345, 16266>>
        above(i) == stat * 1000 > q[i] * Scale
    IN  IF ~above(1) THEN Scale \div 2
        ELSE IF ~above(2) THEN Scale \div 10
        ELSE IF ~above(3) THEN Scale \div 20
        ELSE IF ~above(4) THEN Scale \div 100
        ELSE IF ~above(5) THEN Scale \div 1000
        ELSE 0

\* scipy.stats.chi2_contingency of the table with one row per label and the
\* columns (reference counts, data counts): [st, stat, p_value].  With one
\* degree of freedom Yates' correction moves every observed count by at
\* most 0.5 towards its expected count.
Chi2Contingency(ref_vcs, data_vcs) ==
    With(SortedSeq(DOMAIN ref_vcs \cup DOMAIN data_vcs), LAMBDA ls :
    With(Array([i \in DOMAIN ls |-> <<Get(ref_vcs, ls[i], 0), Get(data_vcs, ls[i], 0)>>]), LAMBDA O :
    With(<<SumSeq([i \in DOMAIN ls |-> O[i][1]]), SumSeq([i \in DOMAIN ls |-> O[i][2]])>>, LAMBDA C :
    With(Len(ls) - 1, LAMBDA dof :
        LET N == C[1] + C[2]
            D2(i, j) == 2 * Abs(O[i][j] * N - (O[i][1] + O[i][2]) * C[j])
            num(d) == IF dof = 1 THEN (IF d > N THEN (d - N) * (d - N) ELSE 0) ELSE d * d
            term(i, j) == (num(D2(i, j)) * Scale) \div (4 * N * (O[i][1] + O[i][2]) * C[j])
        IN  IF ls = <<>> \/ C[1] = 0 \/ C[2] = 0 THEN [st |-> "ValueError", stat |-> 0, p_value |-> 0]
            ELSE IF dof = 0 THEN [st |-> "ok", stat |-> 0, p_value |-> Scale]
            ELSE With(SumSeq([i \in DOMAIN ls |-> term(i, 1) + term(i, 2)]), LAMBDA stat :
                     [st |-> "ok", stat |-> stat, p_value |-> Chi2Sf(stat, dof)])))))

\* Chi2Statistic._calc_chi2
CalcChi2(m0, data) == Chi2Contingency(m0._reference_data_vcs.v, ValueCounts(data.runs))

\* Chi2Statistic._fit
Chi2StatisticFit(m0, reference_data) ==
    Ok([m0 EXCEPT !._reference_data_vcs = Some(ValueCounts(RemoveMissingData(reference_data).runs)), !._fitted = Some(TRUE)], 0)

\* Chi2Statistic._calculate
Chi2StatisticCalculate(m0, data0) ==
    IF ~m0._fitted.v THEN Raise("NotFittedException", m0)
    ELSE With(CalcChi2(m0, RemoveMissingData(data0)), LAMBDA r :
             IF r.st # "ok" THEN Raise(r.st, m0)
             ELSE Ok([m0 EXCEPT !._p_value = Some(r.p_value)], r.stat))

\* the significance level of Chi2Statistic.alert, as a fixed-point number
Alpha == (5 * Scale) \div 100

\* Chi2Statistic.alert leaving the upper threshold as it is
Chi2StatisticAlertKeepsUpper(m0, value) ==
    LET m1 == [m0 EXCEPT !.lower_threshold_value = None]
    IN  IF m1._p_value = Unset THEN Raise("AttributeError", m1)
        ELSE Ok(m1, m1._p_value.v < Alpha)

\* Chi2Statistic.alert deciding by the thresholds, as Method.alert does
Chi2StatisticAlertByThresholds(m0, value) ==
    LET m1 == [m0 EXCEPT !.lower_threshold_value = None, !.upper_threshold_value = None]
    IN  IF m1._p_value = Unset THEN Raise("AttributeError", m1)
        ELSE Ok(m1, (m0.lower_threshold_value # None /\ value < m0.lower_threshold_value.v) \/ (m0.upper_threshold_value # None /\ value > m0.upper_threshold_value.v))

\* Chi2Statistic.alert
Chi2StatisticAlert(m0, value) ==
    LET m1 == [m0 EXCEPT !.lower_threshold_value = None, !.upper_threshold_value = None]
    IN  IF m1._p_value = Unset THEN Raise("AttributeError", m1)
        ELSE Ok(m1, m1._p_value.v < Alpha)

\* Method.alert with the thresholds themselves alerting
MethodAlertInclusive(m0, value) ==
    Ok(m0, (m0.lower_threshold_value # None /\ value # NaN /\ value <= m0.lower_threshold_value.v)
           \/ (m0.upper_threshold_value # None /\ value # NaN /\ value >= m0.upper_threshold_value.v))

\* Method.alert
MethodAlert(m0, value) ==
    Ok(m0, (m0.lower_threshold_value # None /\ value # NaN /\ value < m0.lower_threshold_value.v)
           \/ (m0.upper_threshold_value # None /\ value # NaN /\ value > m0.upper_threshold_value.v))

\* __eq__ comparing the display names only
MethodEqDisplayName(a, b) == a.display_name = b.display_name

\* Method.__eq__
MethodEq(a, b) == a.display_name = b.display_name /\ a.column_name = b.column_name

----------------------------------------------------------------------------
(* KolmogorovSmirnovStatistic *)

\* the values of a column without missing values
Values(runs) == UniqueVals(runs) \ {NaN}

\* counts / n as fixed-point numbers
RelFreqs(counts, n) == Array([i \in DOMAIN counts |-> Ratio(counts[i], n)])

\* max(abs(a - b)) of two arrays of the same length
MaxAbsDiff(a, b) == SetMax({Abs(a[i] - b[i]) : i \in DOMAIN a})

\* the exact branch taken with a reference of AutoLimit rows as well
FitsExactUpToLimit(m0, ref) == (m0.calculation_method.v = "auto" /\ NRows(ref) <= AutoLimit) \/ m0.calculation_method.v = "exact"

\* the branch both _fit methods take: store the raw reference sample
FitsExact(m0, ref) == (m0.calculation_method.v = "auto" /\ NRows(ref) < AutoLimit) \/ m0.calculation_method.v = "exact"

\* the branch both _calculate methods take: use the binned estimate
CalculatesEstimated(m0) == (m0.calculation_method.v = "auto" /\ m0._reference_size.v >= AutoLimit) \/ m0.calculation_method.v = "estimated"

\* KolmogorovSmirnovStatistic._fit
KolmogorovSmirnovStatisticFit(m0, reference_data) ==
    LET ref == RemoveMissingData(reference_data).runs
        qts == Linspace(SetMin(Values(ref)), SetMax(Values(ref)), m0.n_bins.v)
    IN  IF FitsExact(m0, ref)
        THEN Ok([m0 EXCEPT !._reference_data = Some(ref), !._reference_size = Some(NRows(ref)), !._fitted = Some(TRUE)], 0)
        ELSE IF ref = <<>> THEN Raise("ValueError", m0)
        ELSE Ok([m0 EXCEPT !._qts = Some(qts), !._ref_rel_freqs = Some(CumSum(RelFreqs(Histogram(ref, qts), NRows(ref)), 0)), !._reference_size = Some(NRows(ref)), !._fitted = Some(TRUE)], 0)

\* scipy.stats.ks_2samp(reference, data)[0]: the largest distance between
\* the two empirical distribution functions
Ks2Samp(ref, data) == SetMax({Abs(Ratio(CountLE(ref, x, 1), NRows(ref)) - Ratio(CountLE(data, x, 1), NRows(data))) : x \in Values(ref) \cup Values(data)})

\* KolmogorovSmirnovStatistic._calculate
KolmogorovSmirnovStatisticCalculate(m0, data0) ==
    LET data == RemoveMissingData(data0).runs
        chunk_rel_freqs == RelFreqs(Histogram(data, m0._qts.v), NRows(data))
        rel_freq_lower_than_edges == Ratio(CountBelow(data, m0._qts.v.e[1], m0._qts.v.den), NRows(data))
    IN  IF ~m0._fitted.v THEN Raise("NotFittedException", m0)
        ELSE IF CalculatesEstimated(m0)
        THEN IF m0._qts = Unset THEN Raise("AttributeError", m0)
             ELSE IF data = <<>> THEN Raise("ZeroDivisionError", m0)
             ELSE IF m0._ref_rel_freqs = None THEN Raise("TypeError", m0)
             ELSE Ok(m0, MaxAbsDiff(m0._ref_rel_freqs.v, CumSum(chunk_rel_freqs, rel_freq_lower_than_edges)))
        ELSE IF m0._reference_data = None THEN Raise("TypeError", m0)
        ELSE IF m0._reference_data.v = <<>> \/ data = <<>> THEN Raise("ValueError", m0)
        ELSE Ok(m0, Ks2Samp(m0._reference_data.v, data))

----------------------------------------------------------------------------
(* WassersteinDistance *)

\* np.histogram(reference, bins=n)[1]: n equal bins over [min, max], over
\* [min - 0.5, max + 0.5] when min = max and over [0, 1] for an empty sample
HistogramBinEdges(runs, n) ==
    IF runs = <<>> THEN [den |-> n, e |-> Array([i \in 1..(n + 1) |-> i - 1])]
    ELSE IF SetMin(Values(runs)) = SetMax(Values(runs)) THEN [den |-> 2 * n, e |-> Array([i \in 1..(n + 1) |-> (2 * SetMin(Values(runs)) - 1) * n + 2 * (i - 1)])]
    ELSE Linspace(SetMin(Values(runs)), SetMax(Values(runs)), n)

\* WassersteinDistance._fit; the relative frequencies of an empty reference
\* sample are 0 / 0 = nan
WassersteinDistanceFit(m0, reference_data) ==
    LET ref == RemoveMissingData(reference_data).runs
        bin_edges == HistogramBinEdges(ref, m0.n_bins.v)
        freqs == IF ref = <<>> THEN Array([i \in 1..m0.n_bins.v |-> NaN]) ELSE RelFreqs(Histogram(ref, bin_edges), NRows(ref))
    IN  IF FitsExact(m0, ref)
        THEN Ok([m0 EXCEPT !._reference_data = Some(ref), !._fitted = Some(TRUE), !._reference_size = Some(NRows(ref))], 0)
        ELSE Ok([m0 EXCEPT !._bin_edges = Some(bin_edges), !._ref_rel_freqs = Some(freqs), !._bin_width = Some(bin_edges.e[2] - bin_edges.e[1]), !._fitted = Some(TRUE), !._reference_size = Some(NRows(ref))], 0)

\* np.arange(start, stop, step) for step > 0, all in units of 1 / den
Arange(start, stop, step) == IF stop <= start THEN <<>> ELSE Array([i \in 1..((stop - start + step - 1) \div step) |-> start + (i - 1) * step])

\* scipy.stats.wasserstein_distance(reference, data): the area between the
\* two empirical distribution functions
WassersteinExact(ref, data) ==
    LET xs == SortedSeq(Values(ref) \cup Values(data))
    IN  SumSeq([i \in 1..(Len(xs) - 1) |-> Abs(Ratio(CountLE(ref, xs[i], 1), NRows(ref)) - Ratio(CountLE(data, xs[i], 1), NRows(data))) * (xs[i + 1] - xs[i])])

\* the extension with the edges on the left counted from the minimum itself
WassersteinExtensionFromMinimum(m0, data) ==
    LET be == m0._bin_edges.v
        w == m0._bin_width.v
        min_chunk == SetMin(Values(data)) * be.den
        max_chunk == SetMax(Values(data)) * be.den
        left_edges_to_prepand == Arange(min_chunk, be.e[1] - w, w)
        right_edges_to_append == Arange(be.e[Len(be.e)] + w, max_chunk + w, w)
        updated_edges == [den |-> be.den, e |-> left_edges_to_prepand \o be.e \o right_edges_to_append]
    IN  [left |-> left_edges_to_prepand, right |-> right_edges_to_append, updated_edges |-> updated_edges,
         updated_ref_binned_pdf |-> [i \in DOMAIN left_edges_to_prepand |-> 0] \o m0._ref_rel_freqs.v \o [i \in DOMAIN right_edges_to_append |-> 0],
         chunk_binned_pdf |-> RelFreqs(Histogram(data, updated_edges), NRows(data))]

\* the estimated branch of WassersteinDistance._calculate: the edges
\* prepended and appended, the extended grid and reference frequencies, the
\* histogram of the data on the extended grid
WassersteinExtension(m0, data) ==
    LET be == m0._bin_edges.v
        w == m0._bin_width.v
        min_chunk == SetMin(Values(data)) * be.den
        max_chunk == SetMax(Values(data)) * be.den
        left_edges_to_prepand == Arange(min_chunk - w, be.e[1] - w, w)
        right_edges_to_append == Arange(be.e[Len(be.e)] + w, max_chunk + w, w)
        updated_edges == [den |-> be.den, e |-> left_edges_to_prepand \o be.e \o right_edges_to_append]
    IN  [left |-> left_edges_to_prepand, right |-> right_edges_to_append, updated_edges |-> updated_edges,
         updated_ref_binned_pdf |-> [i \in DOMAIN left_edges_to_prepand |-> 0] \o m0._ref_rel_freqs.v \o [i \in DOMAIN right_edges_to_append |-> 0],
         chunk_binned_pdf |-> RelFreqs(Histogram(data, updated_edges), NRows(data))]

\* WassersteinDistance._calculate
WassersteinDistanceCalculate(m0, data0) ==
    LET data == RemoveMissingData(data0).runs
        x == WassersteinExtension(m0, data)
        ref_binned_cdf == CumSum(x.updated_ref_binned_pdf, 0)
        chunk_binned_cdf == CumSum(x.chunk_binned_pdf, 0)
    IN  IF ~m0._fitted.v THEN Raise("NotFittedException", m0)
        ELSE IF CalculatesEstimated(m0)
        THEN IF data = <<>> THEN Raise("ValueError", m0)
             ELSE IF m0._bin_edges = Unset THEN Raise("AttributeError", m0)
             ELSE IF m0._reference_size.v = 0 THEN Ok(m0, NaN)
             ELSE Ok(m0, (SumSeq([i \in DOMAIN ref_binned_cdf |-> Abs(ref_binned_cdf[i] - chunk_binned_cdf[i])]) * m0._bin_width.v) \div m0._bin_edges.v.den)
        ELSE IF m0._reference_data = None THEN Raise("TypeError", m0)
        ELSE IF m0._reference_data.v = <<>> \/ data = <<>> THEN Raise("ValueError", m0)
        ELSE Ok(m0, WassersteinExact(m0._reference_data.v, data))

----------------------------------------------------------------------------
(* Fixed-point square root and logarithm *)

RECURSIVE ISqrtBetween(_, _, _)
ISqrtBetween(n, lo, hi) == IF lo >= hi THEN lo ELSE LET mid == (lo + hi + 1) \div 2 IN IF mid * mid <= n THEN ISqrtBetween(n, mid, hi) ELSE ISqrtBetween(n, lo, mid - 1)

\* the integer part of the square root of n >= 0
ISqrt(n) == ISqrtBetween(n, 0, IF n < 46340 THEN n ELSE 46340)

\* np.sqrt of a fixed-point number
Sqrt(x) == ISqrt(x * Scale)

RECURSIVE Log2Bits(_, _, _)
\* the first i binary digits of log2(z / 4096) for 4096 <= z < 8192
Log2Bits(z, i, acc) == IF i = 0 THEN acc ELSE LET sq == (z * z) \div 4096 IN IF sq >= 8192 THEN Log2Bits(sq \div 2, i - 1, 2 * acc + 1) ELSE Log2Bits(sq, i - 1, 2 * acc)

RECURSIVE Log2Ratio(_, _)
\* log2(x / y) of integers x, y > 0 as a fixed-point number
Log2Ratio(x, y) == IF x >= 2 * y THEN Scale + Log2Ratio(x, 2 * y) ELSE IF x < y THEN Log2Ratio(2 * x, y) - Scale ELSE (Log2Bits((x * 4096) \div y, 10, 0) * Scale) \div 1024

----------------------------------------------------------------------------
(* JensenShannonDistance and HellingerDistance *)

\* np.unique(column): the distinct values in ascending order, nan last
NpUnique(runs) == SortedSeq(Values(runs)) \o (IF NaN \in UniqueVals(runs) THEN <<NaN>> ELSE <<>>)

\* the part of both _fit methods after the missing values are (Hellinger)
\* or are not (Jensen-Shannon) removed; doane is the number of bins numpy's
\* 'doane' estimator chooses for the column
BinningFit(m0, reference_data, doane) ==
    LET ref == reference_data.runs
        n_unique_values == Len(NpUnique(ref))
        len_reference == NRows(ref)
        treat_as_type == IF ColumnIsCategorical(reference_data) THEN "cat" ELSE IF n_unique_values > 50 \/ 10 * n_unique_values > len_reference THEN "cont" ELSE "cat"
        bins == HistogramBinEdges(ref, doane)
        reference_unique == NpUnique(ref)
    IN  IF ~ColumnIsCategorical(reference_data) /\ len_reference = 0 THEN Raise("ZeroDivisionError", m0)
        ELSE IF treat_as_type = "cont"
        THEN IF NaN \in UniqueVals(ref) THEN Raise("ValueError", m0)
             ELSE Ok([m0 EXCEPT !._bins = Some(bins), !._reference_proba_in_bins = Some(RelFreqs(Histogram(ref, bins), len_reference)), !._treat_as_type = Some("cont")], 0)
        ELSE Ok([m0 EXCEPT !._bins = Some(reference_unique),
                           !._reference_proba_in_bins = Some(IF len_reference = 0 THEN <<>> ELSE Array([i \in DOMAIN reference_unique |-> Ratio(CountOf(ref, reference_unique[i]), len_reference)])),
                           !._treat_as_type = Some("cat")], 0)

\* JensenShannonDistance._fit
JensenShannonDistanceFit(m0, reference_data, doane) == BinningFit(m0, reference_data, doane)

\* HellingerDistance._fit
HellingerDistanceFit(m0, reference_data, doane) == BinningFit(m0, RemoveMissingData(reference_data), doane)

\* np.histogram(data, bins=self._bins)[0] or data_count_on_ref_bins: the rows
\* of data counted in each reference bin or for each reference label.  A nan
\* reference label is found among the data's labels only in an object
\* column (the same nan object).
CountOnRefBins(m0, data) ==
    IF m0._treat_as_type.v = "cont" THEN Histogram(data.runs, m0._bins.v)
    ELSE Array([i \in DOMAIN m0._bins.v |-> IF m0._bins.v[i] = NaN /\ data.dtype # "object" THEN 0 ELSE CountOf(data.runs, m0._bins.v[i])])

\* the two vectors without the bin of the leftover
BinnedProbaNoLeftover(m0, data) ==
    LET len_data == NRows(data.runs)
        in_bins == CountOnRefBins(m0, data)
    IN  IF len_data = 0 /\ in_bins # <<>> THEN [nan |-> TRUE, reference |-> m0._reference_proba_in_bins.v, data |-> [i \in DOMAIN in_bins |-> NaN]]
        ELSE [nan |-> FALSE, reference |-> m0._reference_proba_in_bins.v, data |-> RelFreqs(in_bins, IF len_data = 0 THEN 1 ELSE len_data)]

\* the part both _calculate methods share: the two probability vectors that
\* are compared, [nan, reference, data]; the leftover is computed from the
\* counts, without rounding.
BinnedProba(m0, data) ==
    LET len_data == NRows(data.runs)
        in_bins == CountOnRefBins(m0, data)
        leftover == len_data - SumSeq(in_bins)
    IN  IF len_data = 0 /\ in_bins # <<>> THEN [nan |-> TRUE, reference |-> m0._reference_proba_in_bins.v, data |-> [i \in DOMAIN in_bins |-> NaN]]
        ELSE IF len_data = 0 THEN [nan |-> FALSE, reference |-> <<0>>, data |-> <<Scale>>]
        ELSE IF leftover > 0 THEN [nan |-> FALSE, reference |-> Append(m0._reference_proba_in_bins.v, 0), data |-> Append(RelFreqs(in_bins, len_data), Ratio(leftover, len_data))]
        ELSE [nan |-> FALSE, reference |-> m0._reference_proba_in_bins.v, data |-> RelFreqs(in_bins, len_data)]

\* scipy.spatial.distance.jensenshannon(p, q, base=2): both vectors are
\* normalised to sum 1 first; nan when one of them sums to 0
JensenShannon(p, q) ==
    LET sp == SumSeq(p)
        sq == SumSeq(q)
        pn == Array([i \in DOMAIN p |-> Ratio(p[i], sp)])
        qn == Array([i \in DOMAIN q |-> Ratio(q[i], sq)])
        rel_entr(a, b) == IF a = 0 THEN 0 ELSE (a * Log2Ratio(2 * a, a + b)) \div Scale
        js == SumSeq([i \in DOMAIN pn |-> rel_entr(pn[i], qn[i]) + rel_entr(qn[i], pn[i])])
    IN  IF sp = 0 \/ sq = 0 THEN NaN ELSE Sqrt(IF js < 0 THEN 0 ELSE js \div 2)

\* the same without the division by np.sqrt(2)
HellingerUnscaled(p, q) == ISqrt(SumSeq([i \in DOMAIN p |-> LET d == Sqrt(p[i]) - Sqrt(q[i]) IN d * d]))

\* np.sqrt(np.sum((np.sqrt(p) - np.sqrt(q)) ** 2)) / np.sqrt(2)
Hellinger(p, q) == ISqrt(SumSeq([i \in DOMAIN p |-> LET d == Sqrt(p[i]) - Sqrt(q[i]) IN d * d]) \div 2)

\* _calculate appending the leftover bin to the stored reference vector
JensenShannonDistanceCalculateInPlace(m0, data) ==
    IF m0._reference_proba_in_bins = Unset THEN Raise("AttributeError", m0)
    ELSE With(BinnedProba(m0, data), LAMBDA b :
             IF b.nan THEN Ok(m0, NaN) ELSE Ok([m0 EXCEPT !._reference_proba_in_bins = Some(b.reference)], JensenShannon(b.reference, b.data)))

\* JensenShannonDistance._calculate
JensenShannonDistanceCalculate(m0, data) ==
    IF m0._reference_proba_in_bins = Unset THEN Raise("AttributeError", m0)
    ELSE With(BinnedProba(m0, data), LAMBDA b :
             IF b.nan THEN Ok(m0, NaN) ELSE Ok(m0, JensenShannon(b.reference, b.data)))

\* HellingerDistance._calculate
HellingerDistanceCalculate(m0, data) ==
    IF m0._reference_proba_in_bins = Unset THEN Raise("AttributeError", m0)
    ELSE With(BinnedProba(m0, RemoveMissingData(data)), LAMBDA b :
             IF b.nan THEN Ok(m0, NaN) ELSE Ok(m0, Hellinger(b.reference, b.data)))

----------------------------------------------------------------------------
(* Method: fit, calculate, alert *)

\* self._fit(reference_data, timestamps); Method._fit itself raises
FitImpl(m0, reference_data, doane) ==
    CASE m0.cls = "JensenShannonDistance" -> JensenShannonDistanceFit(m0, reference_data, doane)
      [] m0.cls = "KolmogorovSmirnovStatistic" -> KolmogorovSmirnovStatisticFit(m0, reference_data)
      [] m0.cls = "Chi2Statistic" -> Chi2StatisticFit(m0, reference_data)
      [] m0.cls = "LInfinityDistance" -> LInfinityDistanceFit(m0, reference_data)
      [] m0.cls = "WassersteinDistance" -> WassersteinDistanceFit(m0, reference_data)
      [] m0.cls = "HellingerDistance" -> HellingerDistanceFit(m0, reference_data, doane)
      [] OTHER -> Raise("NotImplementedError", m0)

\* self._calculate(data); Method._calculate itself raises
CalculateImpl(m0, data) ==
    CASE m0.cls = "JensenShannonDistance" -> JensenShannonDistanceCalculate(m0, data)
      [] m0.cls = "KolmogorovSmirnovStatistic" -> KolmogorovSmirnovStatisticCalculate(m0, data)
      [] m0.cls = "Chi2Statistic" -> Chi2StatisticCalculate(m0, data)
      [] m0.cls = "LInfinityDistance" -> LInfinityDistanceCalculate(m0, data)
      [] m0.cls = "WassersteinDistance" -> WassersteinDistanceCalculate(m0, data)
      [] m0.cls = "HellingerDistance" -> HellingerDistanceCalculate(m0, data)
      [] OTHER -> Raise("NotImplementedError", m0)

\* calculate taking the thresholds back to their initial value
MethodCalculateResets(m0, data) == [CalculateImpl(m0, data) EXCEPT !.m = [@ EXCEPT !.lower_threshold_value = None, !.upper_threshold_value = None]]

\* Method.calculate
MethodCalculate(m0, data) == CalculateImpl(m0, data)

RECURSIVE CalculateChunks(_, _, _, _)
\* [self._calculate(chunk.data[name]) for chunk in chunks]: the chunks in
\* order, each on the instance the one before left
CalculateChunks(m0, dtype, chunks, acc) ==
    IF chunks = <<>> THEN Ok(m0, acc)
    ELSE With(CalculateImpl(m0, [dtype |-> dtype, runs |-> Head(chunks)]), LAMBDA r :
             IF r.st # "ok" THEN r ELSE CalculateChunks(r.m, dtype, Tail(chunks), Append(acc, r.v.v)))

\* the thresholds Method.fit assigns from the reference chunk results
FitThresholds(m0, reference_chunk_results) ==
    LET t == CalculateThresholdValues(m0.threshold, reference_chunk_results, m0.lower_threshold_value_limit, m0.upper_threshold_value_limit)
    IN  [m0 EXCEPT !.lower_threshold_value = t[1], !.upper_threshold_value = t[2]]

\* Method.fit(reference_data, timestamps): timestamps only add a column to
\* the frame that is chunked, and the chunker modelled splits by count
MethodFit(m0, reference_data, doane) ==
    With(FitImpl(m0, reference_data, doane), LAMBDA f :
        IF f.st # "ok" THEN f
        ELSE With(CalculateChunks(f.m, reference_data.dtype, Split(f.m.chunker, reference_data.runs), <<>>), LAMBDA c :
                 IF c.st # "ok" THEN Raise(c.st, c.m) ELSE Ok(FitThresholds(c.m, c.v.v), 0)))

\* the alert method of the instance's class
AlertImpl(m0, value) == IF m0.cls = "Chi2Statistic" THEN Chi2StatisticAlert(m0, value) ELSE MethodAlert(m0, value)

----------------------------------------------------------------------------
(* Inputs *)

\* a column of c1 rows of value 1, then c2 rows of value 2, then cn missing rows
BlockRuns(c1, c2, cn) == (IF c1 > 0 THEN <<[v |-> 1, n |-> c1]>> ELSE <<>>) \o (IF c2 > 0 THEN <<[v |-> 2, n |-> c2]>> ELSE <<>>) \o (IF cn > 0 THEN <<[v |-> NaN, n |-> cn]>> ELSE <<>>)

Dtypes == {"float64", "object"}

\* the columns given to fit and calculate: numbers 1 and 2 and NaN, each
\* absent, once or MaxCount times, and labels without missing rows
Columns == {[dtype |-> "float64", runs |-> BlockRuns(c[1], c[2], c[3])] : c \in {x \in {0, 1, MaxCount} \X {0, MaxCount} \X {0, 1} : x[1] + x[2] + x[3] > 0}} \cup {[dtype |-> "object", runs |-> BlockRuns(c[1], c[2], 0)] : c \in {x \in {0, MaxCount} \X {0, MaxCount} : x[1] + x[2] > 0}}

Thresholds == {[kind |-> "constant", lower |-> Some(Scale \div 10), upper |-> Some(Scale \div 2)], [kind |-> "envelope"]}

Chunkers == {[chunk_number |-> MaxChunks]}

\* the computation_params dictionaries a caller passes
ComputationParamsSet == {("calculation_method" :> "exact"), ("kolmogorov_smirnov" :> "x") @@ ("wasserstein" :> "x") @@ ("calculation_method" :> "estimated") @@ ("n_bins" :> 2)}

KwargsSet == {[chunker |-> c, threshold |-> t] : c \in Chunkers, t \in Thresholds} \cup {[chunker |-> c, threshold |-> t, computation_params |-> cp] : c \in Chunkers, t \in Thresholds, cp \in ComputationParamsSet}

\* the keyword arguments given to create
CreateKwargs == {kw \in KwargsSet : kw.threshold.kind = "constant" /\ "computation_params" \notin DOMAIN kw}

\* the keys given to create
CreateKeys == {StrKey(k) : k \in DOMAIN ImportedRegistry \cup {"custom", "unknown"}} \cup {IntKey("42")}

\* the keys and classes given to register after the import
RegisterKeys == {"custom", "chi2"}
RegisterClasses == {CustomClass, "LInfinityDistance"}

\* the values given to alert: some fixed ones and the thresholds themselves
AlertValues(m0) == {0, Scale \div 4, (9 * Scale) \div 10, Scale} \cup {o.v : o \in {x \in {m0.lower_threshold_value, m0.upper_threshold_value} : IsSome(x)}}

\* the numbers of bins the 'doane' estimator may choose where it is asked
DoaneChoices(m0, reference_data) == IF m0.cls \in {"JensenShannonDistance", "HellingerDistance"} /\ ~ColumnIsCategorical(reference_data) THEN 1..MaxBins ELSE {1}

----------------------------------------------------------------------------
(* State *)

\* what is remembered of the calls made on m since it was constructed:
\* whether fit was called; the p-value the last successful calculate call
\* stored; the p-value the last calculate or fit call left stored; the
\* thresholds the last fit assigned, while only calculate was called since;
\* whether alert was called since the last fit; the column of the last fit,
\* where the call records it
FreshHist == [fit_called |-> FALSE, calculate_p |-> Unset, stored_p |-> Unset, fit_thresholds |-> Unset, alerted |-> FALSE, reference |-> Unset, fits |-> 0, fit_rows |-> Unset]

\* the last call: its name, its outcome ("ok" or the exception raised), its
\* arguments, what it returned, and the instance and registry it found
Call(op, st, arg, v) == [op |-> op, st |-> st, arg |-> arg, v |-> v, m_before |-> m, registry_before |-> registry]

\* no Method.fit call in progress
NoFrame == [pc |-> "idle"]

\* no calculator constructed
NoCalculator == [cls |-> "<none>"]

\* run() not called
NoRun == [pc |-> "idle"]

Init ==
    /\ registry = ImportedRegistry
    /\ m = NoInstance
    /\ other = NoInstance
    /\ last = [op |-> "import", st |-> "ok", arg |-> None, v |-> None, m_before |-> NoInstance, registry_before |-> <<>>]
    /\ hist = FreshHist
    /\ frame = NoFrame
    /\ calc = NoCalculator
    /\ run = NoRun

\* a call of MethodFactory.register(key, feature_type)(wrapped_class)
Register ==
    \E key \in RegisterKeys, feature_type \in FeatureType, wrapped_class \in RegisterClasses :
        \E r \in {RegisterOp(registry, key, feature_type, wrapped_class)} :
            /\ registry' = r.registry
            /\ last' = Call("register", "ok", Some(<<key, feature_type, wrapped_class>>), Some(r.warned))
            /\ UNCHANGED <<rest, m, other, hist>>

\* m = MethodFactory.create(key, feature_type, **kwargs)
Create ==
    \E key \in CreateKeys, feature_type \in FeatureType, kwargs \in CreateKwargs :
        \E r \in {CreateOp(registry, key, feature_type, kwargs)} :
            /\ m' = IF r.st = "ok" THEN r.m ELSE m
            /\ hist' = IF r.st = "ok" THEN FreshHist ELSE hist
            /\ last' = Call("create", r.st, Some(<<key, feature_type>>), Some(r.cls))
            /\ UNCHANGED <<rest, registry, other>>

\* m = method_class(**kwargs)
Construct ==
    \E method_class \in Classes, kwargs \in KwargsSet :
        /\ m' = New(method_class, kwargs)
        /\ hist' = FreshHist
        /\ last' = Call("construct", "ok", Some(method_class), None)
        /\ UNCHANGED <<rest, registry, other>>

\* other = method_class(**kwargs)
ConstructOther ==
    \E method_class \in Classes, kwargs \in KwargsSet :
        /\ other' = New(method_class, kwargs)
        /\ last' = Call("construct other", "ok", Some(method_class), None)
        /\ UNCHANGED <<rest, registry, m, hist>>

\* m.fit(reference_data)
Fit ==
    /\ m # NoInstance
    /\ \E reference_data \in Columns : \E doane \in DoaneChoices(m, reference_data) :
        \E r \in {MethodFit(m, reference_data, doane)} :
            /\ m' = r.m
            /\ hist' = [hist EXCEPT !.fit_called = TRUE, !.alerted = FALSE, !.stored_p = r.m._p_value, !.fit_thresholds = IF r.st = "ok" THEN Some(<<r.m.lower_threshold_value, r.m.upper_threshold_value>>) ELSE Unset]
            /\ last' = Call("fit", r.st, None, None)
            /\ UNCHANGED <<rest, registry, other>>

\* m.calculate(data)
Calculate ==
    /\ m # NoInstance
    /\ \E data \in Columns :
        \E r \in {MethodCalculate(m, data)} :
            /\ m' = r.m
            /\ hist' = [hist EXCEPT !.calculate_p = IF r.st = "ok" THEN r.m._p_value ELSE @, !.stored_p = r.m._p_value]
            /\ last' = Call("calculate", r.st, None, r.v)
            /\ UNCHANGED <<rest, registry, other>>

\* m.alert(value)
Alert ==
    /\ m # NoInstance
    /\ \E value \in AlertValues(m) :
        \E r \in {AlertImpl(m, value)} :
            /\ m' = r.m
            /\ hist' = [hist EXCEPT !.alerted = TRUE, !.fit_thresholds = Unset]
            /\ last' = Call("alert", r.st, Some(value), r.v)
            /\ UNCHANGED <<rest, registry, other>>

\* the columns given to fit where two instances are compared
EqColumns == {[dtype |-> "float64", runs |-> BlockRuns(MaxCount, MaxCount, 0)], [dtype |-> "object", runs |-> BlockRuns(MaxCount, MaxCount, 0)]}

\* other.fit(reference_data)
FitOther ==
    /\ other # NoInstance
    /\ \E reference_data \in EqColumns : \E doane \in DoaneChoices(other, reference_data) :
        \E r \in {MethodFit(other, reference_data, doane)} :
            /\ other' = r.m
            /\ last' = Call("fit other", r.st, None, None)
            /\ UNCHANGED <<rest, registry, m, hist>>

\* m == other
Eq ==
    /\ m # NoInstance
    /\ other # NoInstance
    /\ last' = Call("eq", "ok", None, Some(MethodEq(m, other)))
    /\ UNCHANGED <<rest, registry, m, other, hist>>

\* the life of one method instance
Next == Construct \/ Fit \/ Calculate \/ Alert

Spec == Init /\ [][Next]_vars

\* registrations and creations
FactoryNext == Register \/ Create

FactorySpec == Init /\ [][FactoryNext]_vars

\* two instances and their comparison
EqNext == Construct \/ ConstructOther \/ FitOther \/ Eq

EqSpec == Init /\ [][EqNext]_vars

\* the classes that compare two vectors of probabilities
DistClasses == {"JensenShannonDistance", "HellingerDistance", "LInfinityDistance"}

\* a column of the values 1..k, each in n rows
RangeRuns(k, n) == [i \in 1..k |-> [v |-> i, n |-> n]]

\* the columns given to the distances: numbers and labels 1 and 2, each
\* absent, once or MaxRows times, with and without a missing row, and 1, 2
\* and 3 together, the last once or MaxRows times
DistColumns ==
    {[dtype |-> d, runs |-> BlockRuns(c[1], c[2], c[3])] : d \in Dtypes, c \in {x \in {0, 1, MaxRows} \X {0, 1, MaxRows} \X {0, 1} : x[1] + x[2] + x[3] > 0}}
    \cup {[dtype |-> d, runs |-> BlockRuns(1, 1, 0) \o <<[v |-> 3, n |-> n]>>] : d \in Dtypes, n \in {1, MaxRows}}

\* the reference columns: those and the numbers 1..MaxRuns, each once or in
\* MaxRows rows
DistReferences == DistColumns \cup {[dtype |-> "float64", runs |-> RangeRuns(MaxRuns, n)] : n \in {1, MaxRows}}

\* m = method_class(chunker=..., threshold=...), one of the distances
DistConstruct ==
    \E method_class \in DistClasses, kwargs \in CreateKwargs :
        /\ m' = New(method_class, kwargs)
        /\ hist' = FreshHist
        /\ last' = Call("construct", "ok", Some(method_class), None)
        /\ UNCHANGED <<rest, registry, other>>

\* m.fit(reference_data), the first fit of the instance, the column recorded
DistFit ==
    /\ m # NoInstance
    /\ ~hist.fit_called
    /\ \E reference_data \in DistReferences : \E doane \in DoaneChoices(m, reference_data) :
        \E r \in {MethodFit(m, reference_data, doane)} :
            /\ m' = r.m
            /\ hist' = [hist EXCEPT !.fit_called = TRUE, !.reference = Some(reference_data)]
            /\ last' = Call("fit", r.st, Some(reference_data), None)
            /\ UNCHANGED <<rest, registry, other>>

\* m.calculate(data), the column recorded
DistCalculate ==
    /\ m # NoInstance
    /\ \E data \in DistColumns :
        \E r \in {MethodCalculate(m, data)} :
            /\ m' = r.m
            /\ last' = Call("calculate", r.st, Some(data), r.v)
            /\ UNCHANGED <<rest, registry, other, hist>>

\* the distances: construction, fit and calculate with the columns recorded
DistNext == DistConstruct \/ DistFit \/ DistCalculate

DistSpec == Init /\ [][DistNext]_vars

\* the classes that choose between an exact and an estimated computation
ModeClasses == {"KolmogorovSmirnovStatistic", "WassersteinDistance"}

\* a dictionary of the parameters a caller supplies ("" and 0: not supplied)
ParamsDict(calculation_method, n_bins) == (IF calculation_method # "" THEN "calculation_method" :> calculation_method ELSE <<>>) @@ (IF n_bins # 0 THEN "n_bins" :> n_bins ELSE <<>>)

\* the same under the column name of each of the two classes
ByColumnName(d) == ("kolmogorov_smirnov" :> d) @@ ("wasserstein" :> d)

\* the computation_params a caller passes: the parameters themselves, the
\* parameters under the column names, or both; 'approximate' stands for the
\* strings that are none of 'auto', 'exact' and 'estimated'
ModeParams == UNION {{ParamsDict(c, n), ByColumnName(ParamsDict(c, n)), ByColumnName(ParamsDict(c, n)) @@ ParamsDict(c, n)} : c \in {"", "exact", "estimated", "approximate"}, n \in {0, MaxBins}}

ModeKwargs == CreateKwargs \cup {[chunker |-> kw.chunker, threshold |-> kw.threshold, computation_params |-> cp] : kw \in CreateKwargs, cp \in ModeParams}

\* half the reference size from which 'auto' estimates
Half == AutoLimit \div 2

\* the columns given to the two classes: the number 1 absent or Half times,
\* the number 2 absent, once, Half - 1 or Half times, with and without a
\* missing row
ModeColumns == {[dtype |-> "float64", runs |-> BlockRuns(c[1], c[2], c[3])] : c \in {x \in {0, Half} \X {0, 1, Half - 1, Half} \X {0, 1} : x[1] + x[2] + x[3] > 0}}

\* m = method_class(**kwargs), the arguments recorded
ModeConstruct ==
    \E method_class \in ModeClasses, kwargs \in ModeKwargs :
        /\ m' = New(method_class, kwargs)
        /\ hist' = FreshHist
        /\ last' = Call("construct", "ok", Some(<<method_class, kwargs>>), None)
        /\ UNCHANGED <<rest, registry, other>>

\* m.fit(reference_data), the column recorded once _fit has stored it; the
\* binned estimate is computed for at most MaxBins bins
ModeFit ==
    /\ m # NoInstance
    /\ \E reference_data \in ModeColumns :
        /\ FitsExact(m, RemoveMissingData(reference_data).runs) \/ m.n_bins.v <= MaxBins
        /\ \E r \in {MethodFit(m, reference_data, 1)} :
            /\ m' = r.m
            /\ hist' = [hist EXCEPT !.fit_called = TRUE, !.reference = IF FitImpl(m, reference_data, 1).st = "ok" THEN Some(reference_data) ELSE @]
            /\ last' = Call("fit", r.st, Some(reference_data), None)
            /\ UNCHANGED <<rest, registry, other>>

\* m.calculate(data), the column recorded
ModeCalculate ==
    /\ m # NoInstance
    /\ \E data \in ModeColumns :
        \E r \in {MethodCalculate(m, data)} :
            /\ m' = r.m
            /\ last' = Call("calculate", r.st, Some(data), r.v)
            /\ UNCHANGED <<rest, registry, other, hist>>

\* the two classes: construction with computation_params, fit, calculate
ModeNext == ModeConstruct \/ ModeFit \/ ModeCalculate

ModeSpec == Init /\ [][ModeNext]_vars

\* a column of the numbers of S in ascending order, one row each, and cn
\* missing rows
SetRuns(S, cn) == [i \in 1..Cardinality(S) |-> [v |-> SortedSeq(S)[i], n |-> 1]] \o (IF cn > 0 THEN <<[v |-> NaN, n |-> cn]>> ELSE <<>>)

\* the columns given to calculate: at most two numbers of 0..MaxValue, with
\* and without a missing row
EdgeColumns == {[dtype |-> "float64", runs |-> SetRuns(S, cn)] : S \in {T \in SUBSET (0..MaxValue) : Cardinality(T) <= 2}, cn \in {0, 1}} \ {[dtype |-> "float64", runs |-> <<>>]}

\* the reference columns: those of numbers at least 2 from either end
EdgeReferences == {c \in EdgeColumns : Values(c.runs) \subseteq 2..(MaxValue - 2)}

\* m = WassersteinDistance(..., computation_params=...), configured
\* 'estimated' with 1..MaxBins bins
EdgeConstruct ==
    \E kw \in CreateKwargs, n_bins \in 1..MaxBins :
        /\ m' = New("WassersteinDistance", [chunker |-> kw.chunker, threshold |-> kw.threshold, computation_params |-> ByColumnName(<<>>) @@ ParamsDict("estimated", n_bins)])
        /\ hist' = FreshHist
        /\ last' = Call("construct", "ok", Some("WassersteinDistance"), None)
        /\ UNCHANGED <<rest, registry, other>>

\* m.fit(reference_data)
EdgeFit ==
    /\ m # NoInstance
    /\ \E reference_data \in EdgeReferences :
        \E r \in {MethodFit(m, reference_data, 1)} :
            /\ m' = r.m
            /\ hist' = [hist EXCEPT !.fit_called = TRUE]
            /\ last' = Call("fit", r.st, Some(reference_data), None)
            /\ UNCHANGED <<rest, registry, other>>

\* m.calculate(data), the column recorded
EdgeCalculate ==
    /\ m # NoInstance
    /\ \E data \in EdgeColumns :
        \E r \in {MethodCalculate(m, data)} :
            /\ m' = r.m
            /\ last' = Call("calculate", r.st, Some(data), r.v)
            /\ UNCHANGED <<rest, registry, other, hist>>

\* WassersteinDistance in estimated mode with data beyond the reference
EdgeNext == EdgeConstruct \/ EdgeFit \/ EdgeCalculate

EdgeSpec == Init /\ [][EdgeNext]_vars

\* the keyword arguments of the instances that are fit step by step
StepKwargs == {kw \in KwargsSet : "computation_params" \notin DOMAIN kw}

\* an event of a fit call: the name of what was called, and the number of
\* the chunk it was called on (0: no chunk)
Event(e, i) == [e |-> e, i |-> i]

\* what Method.fit raised or returned: its arguments, the events of the call
\* in order, the instance it was called on
FitReturn(st) == [Call("fit", st, Some([reference_data |-> frame.reference_data, timestamps |-> frame.timestamps, doane |-> frame.doane, trace |-> frame.trace]), IF st = "ok" THEN Some(m) ELSE None) EXCEPT !.m_before = frame.before]

\* m = method_class(**kwargs), while no fit call is in progress
StepConstruct ==
    /\ frame.pc = "idle"
    /\ \E method_class \in BuiltinClasses, kwargs \in StepKwargs :
        /\ m' = New(method_class, kwargs)
        /\ hist' = FreshHist
        /\ last' = Call("construct", "ok", Some(method_class), None)
        /\ UNCHANGED <<registry, other, frame, calc, run>>

\* m.fit(reference_data, timestamps) is called: self._fit(reference_data,
\* timestamps) runs, and raises or returns
StepFit ==
    /\ frame.pc = "idle"
    /\ m # NoInstance
    /\ \E reference_data \in Columns, timestamps \in BOOLEAN : \E doane \in DoaneChoices(m, reference_data) :
        \E r \in {FitImpl(m, reference_data, doane)} :
            /\ m' = r.m
            /\ frame' = [pc |-> IF r.st = "ok" THEN "split" ELSE "raise", st |-> r.st, reference_data |-> reference_data, timestamps |-> timestamps, doane |-> doane,
                         before |-> m, columns |-> {}, chunks |-> <<>>, reference_chunk_results |-> <<>>, trace |-> <<Event("_fit", 0)>>]
            /\ last' = Call("fit called", "ok", None, None)
            /\ UNCHANGED <<registry, other, hist, calc, run>>

\* data = pd.concat([reference_data, timestamps], axis=1) or
\* reference_data.to_frame(), and self.chunker.split(data)
StepSplit ==
    /\ frame.pc = "split"
    /\ frame' = [frame EXCEPT !.pc = "calculate", !.columns = IF frame.timestamps THEN {"reference_data", "timestamps"} ELSE {"reference_data"},
                              !.chunks = Split(m.chunker, frame.reference_data.runs), !.trace = Append(@, Event("split", 0))]
    /\ UNCHANGED <<registry, m, other, last, hist, calc, run>>

\* the chunks taken from the last to the first
StepCalculateChunkReversed ==
    /\ frame.pc = "calculate"
    /\ Len(frame.reference_chunk_results) < Len(frame.chunks)
    /\ \E i \in {Len(frame.chunks) - Len(frame.reference_chunk_results)} :
        \E r \in {CalculateImpl(m, [dtype |-> frame.reference_data.dtype, runs |-> frame.chunks[i]])} :
            /\ m' = r.m
            /\ frame' = [frame EXCEPT !.pc = IF r.st = "ok" THEN "calculate" ELSE "raise", !.st = r.st,
                                      !.reference_chunk_results = IF r.st = "ok" THEN Append(@, r.v.v) ELSE @, !.trace = Append(@, Event("_calculate", i))]
    /\ UNCHANGED <<registry, other, last, hist, calc, run>>

\* self._calculate(chunk.data[reference_data.name]) for the next chunk
StepCalculateChunk ==
    /\ frame.pc = "calculate"
    /\ Len(frame.reference_chunk_results) < Len(frame.chunks)
    /\ \E i \in {Len(frame.reference_chunk_results) + 1} :
        \E r \in {CalculateImpl(m, [dtype |-> frame.reference_data.dtype, runs |-> frame.chunks[i]])} :
            /\ m' = r.m
            /\ frame' = [frame EXCEPT !.pc = IF r.st = "ok" THEN "calculate" ELSE "raise", !.st = r.st,
                                      !.reference_chunk_results = IF r.st = "ok" THEN Append(@, r.v.v) ELSE @, !.trace = Append(@, Event("_calculate", i))]
    /\ UNCHANGED <<registry, other, last, hist, calc, run>>

\* self.lower_threshold_value, self.upper_threshold_value =
\* calculate_threshold_values(...), once every chunk has its result
StepThresholds ==
    /\ frame.pc = "calculate"
    /\ Len(frame.reference_chunk_results) = Len(frame.chunks)
    /\ m' = FitThresholds(m, frame.reference_chunk_results)
    /\ frame' = [frame EXCEPT !.pc = "return", !.trace = Append(@, Event("calculate_threshold_values", 0))]
    /\ UNCHANGED <<registry, other, last, hist, calc, run>>

\* return self, or the exception leaves fit
StepReturn ==
    /\ frame.pc \in {"return", "raise"}
    /\ last' = FitReturn(frame.st)
    /\ hist' = [hist EXCEPT !.fit_called = TRUE]
    /\ frame' = NoFrame
    /\ UNCHANGED <<registry, m, other, calc, run>>

\* m.calculate(data), while no fit call is in progress, the column recorded
StepCalculate ==
    /\ frame.pc = "idle"
    /\ m # NoInstance
    /\ \E data \in Columns :
        \E r \in {MethodCalculate(m, data)} :
            /\ m' = r.m
            /\ last' = Call("calculate", r.st, Some(data), r.v)
            /\ UNCHANGED <<registry, other, hist, frame, calc, run>>

\* Method.fit step by step
StepNext == StepConstruct \/ StepFit \/ StepSplit \/ StepCalculateChunk \/ StepThresholds \/ StepReturn \/ StepCalculate

StepSpec == Init /\ [][StepNext]_vars

----------------------------------------------------------------------------
(* Calculators: AbstractCalculator, MissingValuesCalculator and
   UnseenValuesCalculator *)

\* the fits of one calculator that are followed
MaxFits == 2

\* the rows of a column of the frames given to the calculators
MaxFrameCount == 2

\* nannyml.sampling_error.SAMPLING_ERROR_RANGE
SAMPLING_ERROR_RANGE == 3

\* what a call on a calculator returned or raised; cause is the exception
\* the raised one was made from
CalcOk(c, v) == [st |-> "ok", c |-> c, v |-> Some(v), cause |-> "ok"]
CalcRaise(exc, c, cause) == [st |-> exc, c |-> c, v |-> None, cause |-> cause]

\* the exceptions _fit and _calculate of a subclass are followed raising
Exceptions == {"InvalidArgumentsException", "InvalidReferenceDataException", "CalculatorNotFittedException", "CalculatorException", "NotImplementedError", "KeyError"}

\* a DataFrame is a function from its column names to its columns, which
\* all have the same number of rows
FrameRows(df) == IF DOMAIN df = {} THEN 0 ELSE NRows(df[CHOOSE c \in DOMAIN df : TRUE].runs)

\* DataFrame.empty: no row or no column
FrameEmpty(df) == FrameRows(df) = 0

\* base._list_missing: the columns to find that the data set lacks
ListMissing(columns_to_find, df) == {columns_to_find[i] : i \in DOMAIN columns_to_find} \ DOMAIN df

\* data_quality.base._add_alert_flag: the value is above the upper or below
\* the lower threshold, a threshold of None never met
AddAlertFlag(value, upper_threshold, lower_threshold) == (IsSome(upper_threshold) /\ value > upper_threshold.v) \/ (IsSome(lower_threshold) /\ value < lower_threshold.v)

\* the missing rows of a column
CountNan(runs) == NRows(runs) - NRows(SelectSeq(runs, LAMBDA r : r.v # NaN))

\* MissingValuesCalculator._calculate_missing_value_stats(data)[0]; a count
\* is kept in units of 1 / Scale like a rate
MissingValueStats(c, runs) == IF c.normalize THEN Ratio(CountNan(runs), NRows(runs)) ELSE CountNan(runs) * Scale

\* UnseenValuesCalculator._calculate_unseen_value_stats(data, seen_set)
UnseenValueStats(c, runs, seen_set) ==
    LET count_tot == NRows(runs)
        count_uns == count_tot - NRows(SelectSeq(runs, LAMBDA r : r.v \in seen_set))
    IN  IF c.normalize THEN Ratio(count_uns, count_tot) ELSE count_uns * Scale

\* calculator.__init__ of the two data quality calculators; column_names is
\* [type, v]: a str, a list of str, or something else
DataQualityInit(cls, column_names, normalize, chunker, threshold) ==
    IF column_names.type \notin {"str", "list"} THEN CalcRaise("InvalidArgumentsException", NoCalculator, "InvalidArgumentsException")
    ELSE LET names == column_names.v
             zeros == [i \in {names[j] : j \in DOMAIN names} |-> 0]
         IN  CalcOk([cls |-> cls, chunker |-> chunker, timestamp_column_name |-> None, result |-> None, column_names |-> names,
                     _sampling_error_components |-> zeros, threshold |-> threshold,
                     _upper_alert_thresholds |-> [i \in DOMAIN zeros |-> Some(0)], _lower_alert_thresholds |-> [i \in DOMAIN zeros |-> Some(0)],
                     lower_threshold_value_limit |-> Some(0), upper_threshold_value_limit |-> IF normalize THEN Some(Scale) ELSE None,
                     normalize |-> normalize,
                     data_quality_metric |-> (IF cls = "MissingValuesCalculator" THEN "missing_values" ELSE "unseen_values") \o (IF normalize THEN "_rate" ELSE "_count"),
                     _categorical_seen_values |-> [i \in DOMAIN zeros |-> {}]], 0)

\* a subclass of AbstractCalculator whose _fit and _calculate raise the
\* exceptions given ("ok": return)
SubclassInit(chunker, fit_raises, calculate_raises) ==
    [cls |-> "Subclass", chunker |-> chunker, timestamp_column_name |-> None, result |-> None, fit_raises |-> fit_raises, calculate_raises |-> calculate_raises]

\* _calculate_for_column of the two calculators, on the rows of one chunk
CalculateForColumn(c, runs, column_name) ==
    LET value == IF c.cls = "MissingValuesCalculator" THEN MissingValueStats(c, runs) ELSE UnseenValueStats(c, runs, c._categorical_seen_values[column_name])
        p == c._sampling_error_components[column_name]
        serr == Sqrt((p * (Scale - p)) \div Scale)
        sampling_error == IF c.normalize THEN (serr * Scale) \div Sqrt(NRows(runs) * Scale) ELSE (serr * Sqrt(NRows(runs) * Scale)) \div Scale
        thresholds == [upper_threshold |-> c._upper_alert_thresholds[column_name], lower_threshold |-> c._lower_alert_thresholds[column_name],
                       alert |-> AddAlertFlag(value, c._upper_alert_thresholds[column_name], c._lower_alert_thresholds[column_name])]
    IN  IF c.cls = "MissingValuesCalculator"
        THEN [value |-> value, sampling_error |-> sampling_error, upper_confidence_boundary |-> value + SAMPLING_ERROR_RANGE * sampling_error,
              lower_confidence_boundary |-> value - SAMPLING_ERROR_RANGE * sampling_error] @@ thresholds
        ELSE [value |-> value] @@ thresholds

\* the rows _calculate builds, one for each chunk of the data in order
ChunkRows(c, df) ==
    LET n == FrameRows(df)
        size == (n + c.chunker.chunk_number - 1) \div c.chunker.chunk_number
        names == {c.column_names[j] : j \in DOMAIN c.column_names}
    IN  Array([i \in 1..((n + size - 1) \div size) |->
            [chunk_index |-> i - 1, start_index |-> (i - 1) * size, end_index |-> (IF i * size < n THEN i * size ELSE n) - 1, period |-> "analysis",
             columns |-> Dict([column_name \in names |-> CalculateForColumn(c, Split(c.chunker, df[column_name].runs)[i], column_name)])]])

\* the rows kept when every row is kept
ResultFilterAll(rows, period) == rows

\* Abstract1DResult._filter(period), by way of AbstractResult.filter and
\* PerColumnResult._filter with the column names of the result
ResultFilter(rows, period) == IF period = "all" THEN rows ELSE SelectSeq(rows, LAMBDA row : row.period = period)

\* _calculate of the two data quality calculators, and of the subclass
CalculatorCalculateImpl(c, data) ==
    IF c.cls = "Subclass" THEN (IF c.calculate_raises = "ok" THEN CalcOk(c, <<>>) ELSE CalcRaise(c.calculate_raises, c, c.calculate_raises))
    ELSE IF ~IsSome(data) THEN CalcRaise("AttributeError", c, "AttributeError")
    ELSE IF FrameEmpty(data.v) THEN CalcRaise("InvalidArgumentsException", c, "InvalidArgumentsException")
    ELSE IF ListMissing(c.column_names, data.v) # {} THEN CalcRaise("InvalidArgumentsException", c, "InvalidArgumentsException")
    ELSE With(ChunkRows(c, data.v), LAMBDA res :
            With(IF c.result = None THEN res ELSE ResultFilter(c.result.v, "reference") \o res, LAMBDA rows :
                CalcOk([c EXCEPT !.result = Some(rows)], rows)))

\* the thresholds _fit derives for one column from its reference chunks
AlertThresholds(c, runs, seen_set) ==
    CalculateThresholdValues(c.threshold,
        Array([i \in DOMAIN Split(c.chunker, runs) |-> IF c.cls = "MissingValuesCalculator" THEN MissingValueStats(c, Split(c.chunker, runs)[i]) ELSE UnseenValueStats(c, Split(c.chunker, runs)[i], seen_set)]),
        c.lower_threshold_value_limit, c.upper_threshold_value_limit)

\* _fit of the two data quality calculators, and of the subclass
CalculatorFitImpl(c, reference_data) ==
    IF c.cls = "Subclass" THEN (IF c.fit_raises = "ok" THEN CalcOk(c, 0) ELSE CalcRaise(c.fit_raises, c, c.fit_raises))
    ELSE IF ~IsSome(reference_data) THEN CalcRaise("AttributeError", c, "AttributeError")
    ELSE IF FrameEmpty(reference_data.v) THEN CalcRaise("InvalidArgumentsException", c, "InvalidArgumentsException")
    ELSE IF ListMissing(c.column_names, reference_data.v) # {} THEN CalcRaise("InvalidArgumentsException", c, "InvalidArgumentsException")
    ELSE IF c.cls = "UnseenValuesCalculator" /\ \E i \in DOMAIN c.column_names : ~ColumnIsCategorical(reference_data.v[c.column_names[i]]) THEN CalcRaise("InvalidArgumentsException", c, "InvalidArgumentsException")
    ELSE LET names == DOMAIN c._sampling_error_components
             seen == [col \in names |-> IF c.cls = "UnseenValuesCalculator" THEN UniqueVals(reference_data.v[col].runs) ELSE {}]
             t == Dict([col \in names |-> AlertThresholds(c, reference_data.v[col].runs, seen[col])])
             fitted == [c EXCEPT !._sampling_error_components = IF c.cls = "MissingValuesCalculator" THEN Dict([col \in names |-> Ratio(CountNan(reference_data.v[col].runs), NRows(reference_data.v[col].runs))]) ELSE @,
                                 !._categorical_seen_values = Dict(seen),
                                 !._lower_alert_thresholds = Dict([col \in names |-> t[col][1]]),
                                 !._upper_alert_thresholds = Dict([col \in names |-> t[col][2]])]
         IN  With(CalculatorCalculateImpl(fitted, reference_data), LAMBDA r :
                 CalcOk([r.c EXCEPT !.result = Some(Array([i \in DOMAIN r.v.v |-> [r.v.v[i] EXCEPT !.period = "reference"]]))], 0))

\* fit re-raising what calculate re-raises
AbstractCalculatorFitAsCalculate(c, reference_data) ==
    With(CalculatorFitImpl(c, reference_data), LAMBDA r :
        IF r.st = "ok" THEN r
        ELSE IF r.st \in {"InvalidArgumentsException", "CalculatorNotFittedException"} THEN r
        ELSE CalcRaise("CalculatorException", r.c, r.st))

\* AbstractCalculator.fit
AbstractCalculatorFit(c, reference_data) ==
    With(CalculatorFitImpl(c, reference_data), LAMBDA r :
        IF r.st = "ok" THEN r
        ELSE IF r.st \in {"InvalidArgumentsException", "InvalidReferenceDataException"} THEN r
        ELSE CalcRaise("CalculatorException", r.c, r.st))

\* AbstractCalculator.calculate; data.copy() raises on None
AbstractCalculatorCalculate(c, data) ==
    With(IF ~IsSome(data) THEN CalcRaise("AttributeError", c, "AttributeError") ELSE CalculatorCalculateImpl(c, data), LAMBDA r :
        IF r.st = "ok" THEN r
        ELSE IF r.st \in {"InvalidArgumentsException", "CalculatorNotFittedException"} THEN r
        ELSE CalcRaise("CalculatorException", r.c, r.st))

\* a call on the calculator: what was called, what it raised, its argument,
\* its value, the exception it was made from, the calculator before
CalculatorCall(op, r, arg) == [op |-> op, st |-> r.st, arg |-> arg, v |-> r.v, cause |-> r.cause, calc_before |-> calc]

\* the columns of the frames: the values 1 and 2 and missing rows
FrameColumns == {[dtype |-> "object", runs |-> BlockRuns(x[1], x[2], x[3])] : x \in {<<0, 0, 0>>, <<0, 1, 0>>, <<MaxFrameCount, 0, 0>>, <<MaxFrameCount, 1, 1>>}} \cup {[dtype |-> "float64", runs |-> BlockRuns(1, 0, 1)]}

\* the frames given to the calculators: None, a frame without columns, and
\* frames with a column a or a column b
Frames == {None, Some(<<>>)} \cup {Some([a |-> col]) : col \in FrameColumns} \cup {Some([b |-> col]) : col \in {x \in FrameColumns : x.dtype = "object" /\ NRows(x.runs) = 1}}

ColumnNames == {[type |-> "str", v |-> <<"a">>], [type |-> "list", v |-> <<"a">>], [type |-> "int", v |-> <<>>]}

\* calc = MissingValuesCalculator(...) or UnseenValuesCalculator(...), for
\* the one calculator that is followed
CalculatorConstruct ==
    /\ calc = NoCalculator
    /\ \E cls \in {"MissingValuesCalculator", "UnseenValuesCalculator"}, column_names \in ColumnNames, normalize \in BOOLEAN, chunker \in Chunkers, threshold \in Thresholds :
        \E r \in {DataQualityInit(cls, column_names, normalize, chunker, threshold)} :
            /\ calc' = IF r.st = "ok" THEN r.c ELSE calc
            /\ hist' = IF r.st = "ok" THEN FreshHist ELSE hist
            /\ last' = CalculatorCall("calculator", r, Some(cls))
            /\ UNCHANGED <<registry, m, other, frame, run>>

\* calc = a subclass of AbstractCalculator
SubclassConstruct ==
    /\ calc = NoCalculator
    /\ \E chunker \in Chunkers, fit_raises \in Exceptions \cup {"ok"}, calculate_raises \in Exceptions \cup {"ok"} :
        /\ calc' = SubclassInit(chunker, fit_raises, calculate_raises)
        /\ hist' = FreshHist
        /\ last' = CalculatorCall("calculator", CalcOk(calc', 0), Some("Subclass"))
        /\ UNCHANGED <<registry, m, other, frame, run>>

\* calc.fit(reference_data)
CalculatorFit ==
    /\ calc # NoCalculator
    /\ hist.fits < MaxFits
    /\ \E reference_data \in Frames :
        \E r \in {AbstractCalculatorFit(calc, reference_data)} :
            /\ calc' = r.c
            /\ hist' = IF r.st = "ok" THEN [hist EXCEPT !.fits = @ + 1, !.fit_rows = r.c.result, !.reference = Some(reference_data)] ELSE hist
            /\ last' = CalculatorCall("calculator.fit", r, Some(reference_data))
            /\ UNCHANGED <<registry, m, other, frame, run>>

\* calc.calculate(data)
CalculatorCalculate ==
    /\ calc # NoCalculator
    /\ \E data \in Frames :
        \E r \in {AbstractCalculatorCalculate(calc, data)} :
            /\ calc' = r.c
            /\ last' = CalculatorCall("calculator.calculate", r, Some(data))
            /\ UNCHANGED <<registry, m, other, hist, frame, run>>

\* the calculators: construction, fit, calculate
CalculatorNext == CalculatorConstruct \/ SubclassConstruct \/ CalculatorFit \/ CalculatorCalculate

CalculatorSpec == Init /\ [][CalculatorNext]_vars

----------------------------------------------------------------------------
(* The runner: run(config, ...) with every callback given *)

\* the calculators of a configuration
MaxCalculators == 2

\* RunContext.STEPS_PER_CALCULATOR
STEPS_PER_CALCULATOR == 3

\* the keys of runner._registry
RunnerRegistry == {"univariate_drift", "multivariate_drift", "performance", "cbpe", "dle", "missing_values", "unseen_values"}

\* a calculator of the configuration: its type, whether it is enabled, its
\* store ("none", or a store in which the calculator is "found" or
\* "missing") and the number of its outputs
CalculatorConfig(type, enabled, store, outputs) == [type |-> type, name |-> None, enabled |-> enabled, store |-> store, outputs |-> outputs]

\* the calculators configured: a disabled one, one of an unknown type, and
\* calculators with and without a store and outputs
CalculatorConfigs == {CalculatorConfig("missing_values", FALSE, "none", 0), CalculatorConfig("isolation_forest", TRUE, "none", 0),
                      CalculatorConfig("missing_values", TRUE, "none", 0), CalculatorConfig("unseen_values", TRUE, "none", 1),
                      CalculatorConfig("cbpe", TRUE, "found", 1), CalculatorConfig("univariate_drift", TRUE, "missing", 1)}

\* config.calculators
Configs == UNION {[1..n -> CalculatorConfigs] : n \in 0..MaxCalculators}

\* the steps of every calculator counted, enabled or not
NewRunContextAllCalculators(calculators) ==
    [current_step |-> 0, total_steps |-> Len(calculators) * STEPS_PER_CALCULATOR,
     current_calculator |-> "", current_calculator_config |-> None, current_calculator_success |-> TRUE, run_success |-> TRUE, result |-> None]

\* run_context(config): the RunContext of a run
NewRunContext(calculators) ==
    [current_step |-> 0, total_steps |-> Cardinality({i \in DOMAIN calculators : calculators[i].enabled}) * STEPS_PER_CALCULATOR,
     current_calculator |-> "", current_calculator_config |-> None, current_calculator_success |-> TRUE, run_success |-> TRUE, result |-> None]

\* RunContext.increase_step
IncreaseStep(context) == [context EXCEPT !.current_step = @ + 1]

\* something run() did: a callback it invoked or a call it made, for which
\* calculator of the configuration, with which exception, and the context
\* at that moment
RunEvent(e, exc) == [e |-> e, calculator |-> run.i, exc |-> exc, context |-> run.context]

\* the same with the context as the step has made it
RunEventIn(e, exc, context) == [e |-> e, calculator |-> run.i, exc |-> exc, context |-> context]

\* what a step of run() did, up to the call that raised: the first k of
\* its events, the last of them raising when k is not all of them
Upto(events, k) == SubSeq(events, 1, k)

\* run(config, ...) is called: the context is made and the data are read
RunCall ==
    /\ run.pc = "idle"
    /\ \E calculators \in Configs, read_data \in {"ok", "raises"} :
        /\ run' = [pc |-> IF read_data = "ok" THEN "loop" ELSE "except", calculators |-> calculators, i |-> 0, context |-> NewRunContext(calculators),
                   calc |-> None, exc |-> IF read_data = "ok" THEN "" ELSE "read_data", events |-> <<>>, returned |-> "running"]
        /\ last' = Call("run called", "ok", None, None)
        /\ UNCHANGED <<registry, m, other, hist, frame, calc>>

\* the head of the loop body: the next calculator becomes the current
\* one; a disabled one is skipped; the writers and the store are made and
\* the type is looked up in the registry
RunNextCalculator ==
    /\ run.pc = "loop"
    /\ run.i < Len(run.calculators)
    /\ \E setup \in {"ok", "get_output_writers", "get_store"} :
        LET calculator_config == run.calculators[run.i + 1]
            context == [run.context EXCEPT !.current_calculator_config = Some(calculator_config), !.current_calculator = calculator_config.type]
            exc == IF setup # "ok" THEN setup ELSE IF calculator_config.type \notin RunnerRegistry THEN "InvalidArgumentsException" ELSE ""
        IN  /\ ~calculator_config.enabled => setup = "ok"
            /\ setup = "get_output_writers" => calculator_config.outputs > 0
            /\ setup = "get_store" => calculator_config.store # "none"
            /\ run' = [run EXCEPT !.i = @ + 1, !.context = context, !.calc = None,
                                  !.pc = IF ~calculator_config.enabled THEN "loop" ELSE IF exc # "" THEN "fail" ELSE "load",
                                  !.exc = IF calculator_config.enabled THEN exc ELSE ""]
    /\ UNCHANGED <<registry, m, other, last, hist, frame, calc>>

\* on_fit invoked for a calculator loaded from the store too
LoadEventsAlwaysFit(context, store) ==
    <<RunEventIn("store.load", "", context)>> \o
    (IF store = "found" THEN <<RunEventIn("on_fit", "", context)>> ELSE <<RunEventIn("calc_cls", "", context), RunEventIn("on_fit", "", context), RunEventIn("calc.fit", "", context), RunEventIn("store.store", "", context)>>)

\* the events of the first step with a store: the calculator is loaded,
\* and made, fitted and stored when the store has none
LoadEvents(context, store) ==
    <<RunEventIn("store.load", "", context)>> \o
    (IF store = "found" THEN <<>> ELSE <<RunEventIn("calc_cls", "", context), RunEventIn("on_fit", "", context), RunEventIn("calc.fit", "", context), RunEventIn("store.store", "", context)>>)

\* the events of the first step without a store
CreateEvents(context) == <<RunEventIn("calc_cls", "", context), RunEventIn("on_fit", "", context), RunEventIn("calc.fit", "", context)>>

\* the events of a step of which call k raised (0: none): those up to
\* that call, which carries the exception
Raising(events, k) == IF k = 0 THEN events ELSE Upto(events, k - 1) \o <<[events[k] EXCEPT !.exc = events[k].e]>>

\* the calls of a step that may raise: every one but the callbacks
MayRaise(events) == {0} \cup {k \in DOMAIN events : events[k].e \notin {"on_fit", "on_calculate", "on_write", "on_calculator_complete"}}

\* first step: load or (create + fit) calculator
RunLoadOrFit ==
    /\ run.pc = "load"
    /\ LET calculator_config == run.calculators[run.i]
           context == IncreaseStep(run.context)
           events == IF calculator_config.store # "none" THEN LoadEvents(context, calculator_config.store) ELSE CreateEvents(context)
       IN  \E k \in MayRaise(events) :
               run' = [run EXCEPT !.context = context, !.events = @ \o Raising(events, k),
                                  !.calc = IF k = 0 THEN Some([type |-> calculator_config.type, from |-> IF calculator_config.store = "found" THEN "store" ELSE "calc_cls"]) ELSE None,
                                  !.pc = IF k = 0 THEN "calculate" ELSE "fail", !.exc = IF k = 0 THEN "" ELSE events[k].e]
    /\ UNCHANGED <<registry, m, other, last, hist, frame, calc>>

\* second step: perform calculations
RunCalculate ==
    /\ run.pc = "calculate"
    /\ LET context == IncreaseStep(run.context)
           events == <<RunEventIn("on_calculate", "", context), RunEventIn("calc.calculate", "", context)>>
       IN  \E k \in MayRaise(events) :
               run' = [run EXCEPT !.context = IF k = 0 THEN [context EXCEPT !.result = Some(run.i)] ELSE context, !.events = @ \o Raising(events, k),
                                  !.pc = IF k = 0 THEN "write" ELSE "fail", !.exc = IF k = 0 THEN "" ELSE events[k].e]
    /\ UNCHANGED <<registry, m, other, last, hist, frame, calc>>

\* third step: write results, with every writer of the calculator
RunWrite ==
    /\ run.pc = "write"
    /\ LET context == IncreaseStep(run.context)
           events == <<RunEventIn("on_write", "", context)>> \o [j \in 1..run.calculators[run.i].outputs |-> RunEventIn("writer.write", "", context)] \o <<RunEventIn("on_calculator_complete", "", context)>>
       IN  \E k \in MayRaise(events) :
               run' = [run EXCEPT !.context = context, !.events = @ \o Raising(events, k),
                                  !.pc = IF k = 0 THEN "loop" ELSE "fail", !.exc = IF k = 0 THEN "" ELSE events[k].e]
    /\ UNCHANGED <<registry, m, other, last, hist, frame, calc>>

\* the exception of a calculator ending the run
RunFailStops ==
    /\ run.pc = "fail"
    /\ LET context == [run.context EXCEPT !.current_calculator_success = FALSE, !.run_success = FALSE]
       IN  run' = [run EXCEPT !.context = context, !.events = Append(@, RunEventIn("on_fail", run.exc, context)), !.pc = "done", !.returned = run.exc]
    /\ UNCHANGED <<registry, m, other, last, hist, frame, calc>>

\* except Exception as exc, inside the loop
RunFail ==
    /\ run.pc = "fail"
    /\ LET context == [run.context EXCEPT !.current_calculator_success = FALSE, !.run_success = FALSE]
       IN  run' = [run EXCEPT !.context = context, !.events = Append(@, RunEventIn("on_fail", run.exc, context)), !.pc = "loop", !.exc = ""]
    /\ UNCHANGED <<registry, m, other, last, hist, frame, calc>>

\* after the loop: on_run_complete(context), and run() returns
RunComplete ==
    /\ run.pc = "loop"
    /\ run.i = Len(run.calculators)
    /\ run' = [run EXCEPT !.events = Append(@, [RunEvent("on_run_complete", "") EXCEPT !.calculator = 0]), !.pc = "done", !.returned = "returned"]
    /\ last' = Call("run", "ok", None, None)
    /\ UNCHANGED <<registry, m, other, hist, frame, calc>>

\* except Exception as exc, around the whole run: run() raises it again
RunExcept ==
    /\ run.pc = "except"
    /\ LET context == [run.context EXCEPT !.run_success = FALSE]
       IN  run' = [run EXCEPT !.context = context, !.events = Append(@, [RunEventIn("on_fail", run.exc, context) EXCEPT !.calculator = 0]), !.pc = "done", !.returned = run.exc]
    /\ last' = Call("run", run.exc, None, None)
    /\ UNCHANGED <<registry, m, other, hist, frame, calc>>

\* run(), step by step
RunNext == RunCall \/ RunNextCalculator \/ RunLoadOrFit \/ RunCalculate \/ RunWrite \/ RunFail \/ RunComplete \/ RunExcept

RunSpec == Init /\ [][RunNext]_vars

----------------------------------------------------------------------------
(* Properties *)

Lower(x) == x.lower_threshold_value
Upper(x) == x.upper_threshold_value

\* C1 (as claimed): calculate on an instance of one of the six built-in
\* methods on which fit was never called raises NotFittedException and
\* returns no value.
C1_NotFittedError ==
    (last.op = "calculate" /\ last.m_before.cls \in BuiltinClasses /\ ~hist.fit_called)
        => (last.st = "NotFittedException" /\ last.v = None)

\* C2: calculate leaves both threshold values as it found them, whatever its
\* outcome, so after a fit that returned and any number of calculate calls
\* they are the values that fit assigned.
C2_CalculateKeepsThresholds ==
    /\ last.op = "calculate" => (Lower(m) = Lower(last.m_before) /\ Upper(m) = Upper(last.m_before))
    /\ hist.fit_thresholds # Unset => <<Lower(m), Upper(m)>> = hist.fit_thresholds.v

C2_Witness ==
    /\ last.op = "calculate"
    /\ last.st = "ok"
    /\ hist.fit_thresholds # Unset
    /\ Lower(m) # None
    /\ Upper(m) # None

C4_AlertByLastCalculate ==
    (last.op = "alert" /\ last.m_before.cls = "Chi2Statistic" /\ hist.calculate_p # Unset)
        => (last.v = Some(TRUE) <=> hist.calculate_p.v < Alpha)

\* C4 (amended): Chi2Statistic.alert returns true exactly when the p-value
\* most recently stored on the instance, by a calculate call or by the
\* computation fit runs on the reference chunks, is below 0.05, whatever
\* the argument and the thresholds.
C4_AlertByStoredPValue ==
    (last.op = "alert" /\ last.m_before.cls = "Chi2Statistic" /\ hist.stored_p # Unset)
        => (last.st = "ok" /\ last.v = Some(hist.stored_p.v < Alpha))

C4_Witness ==
    /\ last.op = "alert"
    /\ last.m_before.cls = "Chi2Statistic"
    /\ hist.calculate_p # Unset
    /\ hist.stored_p = hist.calculate_p
    /\ last.v = Some(TRUE)
    /\ Upper(last.m_before) # None
    /\ last.arg.v <= Upper(last.m_before).v
    /\ last.arg.v >= Lower(last.m_before).v

\* C5: alert on a Chi2Statistic on which neither fit nor a successful
\* calculate ever stored a p-value reports no alert, and the thresholds
\* play no part: both are undefined afterwards.
C5_NoSpuriousAlert ==
    (last.op = "alert" /\ last.m_before.cls = "Chi2Statistic" /\ ~hist.fit_called /\ hist.calculate_p = Unset)
        => (last.v # Some(TRUE) /\ Lower(m) = None /\ Upper(m) = None)

C5_Witness ==
    /\ last.op = "alert"
    /\ last.m_before.cls = "Chi2Statistic"
    /\ ~hist.fit_called
    /\ last.arg = Some((9 * Scale) \div 10)
    /\ last.st = "AttributeError"

\* C6: once alert was called on a Chi2Statistic, both threshold values are
\* None and stay None through every calculate and alert call until fit is
\* called again.
C6_ThresholdsDisabled ==
    (m.cls = "Chi2Statistic" /\ hist.alerted) => (Lower(m) = None /\ Upper(m) = None)

C6_Witness ==
    /\ m.cls = "Chi2Statistic"
    /\ hist.alerted
    /\ hist.fit_called
    /\ last.op = "calculate"
    /\ last.st = "ok"

\* the class registered in reg for the key and feature type, if any
Registered(reg, key, feature_type) ==
    IF key.type = "str" /\ key.v \in DOMAIN reg /\ feature_type \in DOMAIN reg[key.v] THEN Some(reg[key.v][feature_type]) ELSE None

\* C7: create returns an instance of the class registered for the key and
\* the feature type; for a key that is not a string, a key that is not
\* registered or a key not registered for the feature type it raises
\* InvalidArgumentsException, creates no instance and leaves the registry
\* as it was.
C7_Create ==
    last.op = "create" =>
        LET c == Registered(last.registry_before, last.arg.v[1], last.arg.v[2])
        IN  /\ registry = last.registry_before
            /\ c # None => (last.st = "ok" /\ last.v = c /\ m.cls = c.v)
            /\ c = None => (last.st = "InvalidArgumentsException" /\ m = last.m_before)

C7_Witness ==
    /\ last.op = "create"
    /\ last.arg = Some(<<StrKey("custom"), CATEGORICAL>>)
    /\ "custom" \in DOMAIN registry
    /\ DOMAIN registry["custom"] = {CONTINUOUS}
    /\ last.st = "InvalidArgumentsException"

\* C8: registering a class for a pair that is already registered raises
\* nothing, logs a warning and replaces the entry of that pair, so that
\* create then gives the new class; the entry of every other pair, the
\* other feature type of the same key included, is unchanged.
C8_ReRegister ==
    (last.op = "register" /\ Registered(last.registry_before, StrKey(last.arg.v[1]), last.arg.v[2]) # None) =>
        LET key == last.arg.v[1]
            feature_type == last.arg.v[2]
            before == last.registry_before
        IN  /\ last.st = "ok"
            /\ last.v = Some(TRUE)
            /\ Registered(registry, StrKey(key), feature_type) = Some(last.arg.v[3])
            /\ \A kw \in CreateKwargs : CreateOp(registry, StrKey(key), feature_type, kw).m.cls = last.arg.v[3]
            /\ DOMAIN registry = DOMAIN before
            /\ \A k \in DOMAIN before : DOMAIN registry[k] = DOMAIN before[k]
            /\ \A k \in DOMAIN before : \A f \in DOMAIN before[k] : <<k, f>> # <<key, feature_type>> => registry[k][f] = before[k][f]

C8_Witness ==
    /\ last.op = "register"
    /\ last.v = Some(TRUE)
    /\ DOMAIN last.registry_before[last.arg.v[1]] = FeatureType
    /\ last.registry_before[last.arg.v[1]][last.arg.v[2]] # last.arg.v[3]

\* the pairs of key and feature type the built-in methods support
BuiltinPairs ==
    {<<StrKey("jensen_shannon"), CONTINUOUS>>, <<StrKey("jensen_shannon"), CATEGORICAL>>,
     <<StrKey("hellinger"), CONTINUOUS>>, <<StrKey("hellinger"), CATEGORICAL>>,
     <<StrKey("kolmogorov_smirnov"), CONTINUOUS>>, <<StrKey("wasserstein"), CONTINUOUS>>,
     <<StrKey("chi2"), CATEGORICAL>>, <<StrKey("l_infinity"), CATEGORICAL>>}

\* C9: as long as nothing but the module's own decorators registered a
\* class, create succeeds for the pairs of BuiltinPairs and for every other
\* pair raises InvalidArgumentsException.
C9_BuiltinPairs ==
    (last.op = "create" /\ last.registry_before = ImportedRegistry) =>
        /\ last.arg.v \in BuiltinPairs => last.st = "ok"
        /\ last.arg.v \notin BuiltinPairs => last.st = "InvalidArgumentsException"

C9_Witness ==
    /\ last.op = "create"
    /\ last.registry_before = ImportedRegistry
    /\ last.arg = Some(<<StrKey("chi2"), CONTINUOUS>>)
    /\ last.st = "InvalidArgumentsException"

\* the instances the classes construct
Instances == {New(c, kw) : c \in Classes, kw \in KwargsSet}

C11_TreatAsContinuous ==
    (last.op = "fit" /\ last.st = "ok" /\ m.cls \in {"JensenShannonDistance", "HellingerDistance"}) =>
        LET reference_data == IF m.cls = "HellingerDistance" THEN RemoveMissingData(last.arg.v) ELSE last.arg.v
            n_unique_values == Len(NpUnique(reference_data.runs))
            len_reference == NRows(reference_data.runs)
        IN  m._treat_as_type = Some(IF ~ColumnIsCategorical(reference_data) /\ n_unique_values > 50 /\ 10 * n_unique_values > len_reference THEN "cont" ELSE "cat")

\* the column a _calculate or _fit of the class compares: every class but
\* JensenShannonDistance removes the missing rows first
Compared(cls, col) == IF cls = "JensenShannonDistance" THEN col ELSE RemoveMissingData(col)

\* v is a vector of probabilities: it sums to 1 within the rounding of its
\* entries
SumsToOne(v) == Abs(SumSeq(v) - Scale) <= Len(v)

\* C12: in every calculate of JensenShannonDistance and HellingerDistance
\* on a fitted instance the reference and the incoming vector compared have
\* the same length and each sums to 1; incoming rows counted in no
\* reference bin append exactly one bin to the incoming vector and one 0 to
\* the reference vector, and without such rows nothing is appended.
C12_ComparedVectors ==
    (last.op = "calculate" /\ m.cls \in {"JensenShannonDistance", "HellingerDistance"} /\ m._reference_proba_in_bins # Unset) =>
        LET data == Compared(m.cls, last.arg.v)
            b == BinnedProba(m, data)
            fitted == m._reference_proba_in_bins.v
            leftover == NRows(data.runs) - SumSeq(CountOnRefBins(m, data))
        IN  /\ ~b.nan
            /\ Len(b.reference) = Len(b.data)
            /\ SumsToOne(b.reference) /\ SumsToOne(b.data)
            /\ leftover > 0 => b.reference = Append(fitted, 0) /\ Len(b.data) = Len(fitted) + 1 /\ b.data[Len(b.data)] > 0
            /\ leftover <= 0 => b.reference = fitted /\ Len(b.data) = Len(fitted)

\* the attributes in which the _fit methods keep the reference distribution
ReferenceState == {"_fitted", "calculation_method", "n_bins", "_reference_data", "_reference_size", "_qts", "_ref_rel_freqs", "_bin_edges", "_bin_width", "_reference_data_vcs", "_reference_proba", "_treat_as_type", "_bins", "_reference_proba_in_bins"}

\* C13: calculate leaves every attribute of the fitted reference
\* distribution as it found it, for each of the six classes, and any
\* calculate(d) that follows returns what it would have returned before the
\* call.
C13_CalculateKeepsReference ==
    last.op = "calculate" =>
        /\ \A a \in ReferenceState : m[a] = last.m_before[a]
        /\ \A d \in Columns : \E r \in {MethodCalculate(m, d)} : \E before \in {MethodCalculate(last.m_before, d)} : r.st = before.st /\ r.v = before.v

C13_Witness ==
    /\ last.op = "calculate"
    /\ last.st = "ok"
    /\ m.cls = "Chi2Statistic"
    /\ IsSome(last.m_before._p_value)
    /\ m._p_value # last.m_before._p_value
    /\ m._reference_data_vcs = last.m_before._reference_data_vcs

\* the direct two-sample computation of the class
TwoSample(cls, ref, data) == IF cls = "KolmogorovSmirnovStatistic" THEN Ks2Samp(ref, data) ELSE WassersteinExact(ref, data)

\* the binned estimate of the class: what an instance of the same number of
\* bins configured 'estimated' computes
BinnedEstimate(m0, reference_data, data) == MethodCalculate(FitImpl([m0 EXCEPT !.calculation_method = Some("estimated")], reference_data, 1).m, data).v

\* C14: KolmogorovSmirnovStatistic and WassersteinDistance keep the raw
\* reference sample and compute the two-sample statistic directly exactly
\* when the instance is configured 'exact', or 'auto' with fewer than
\* 10,000 reference values left after the missing ones are removed;
\* configured 'estimated', or 'auto' with 10,000 values or more, they
\* compute the binned estimate.
C14_ExactOrEstimated ==
    IsSome(hist.reference) =>
        LET ref == RemoveMissingData(hist.reference.v).runs
            exact == m.calculation_method.v = "exact" \/ (m.calculation_method.v = "auto" /\ NRows(ref) < 10000)
        IN  /\ exact <=> m._reference_data = Some(ref)
            /\ (last.op = "calculate" /\ last.st = "ok") =>
                   last.v = IF exact THEN Some(TwoSample(m.cls, ref, RemoveMissingData(last.arg.v).runs))
                            ELSE BinnedEstimate(m, hist.reference.v, last.arg.v)

C14_Witness ==
    /\ last.op = "calculate"
    /\ last.st = "ok"
    /\ IsSome(hist.reference)
    /\ m.calculation_method = Some("auto")
    /\ NRows(RemoveMissingData(hist.reference.v).runs) = 5000
    /\ m._reference_data = Some(RemoveMissingData(hist.reference.v).runs)
    /\ last.v.v > 0

\* the parameters a caller supplied in computation_params for the class of
\* that column name: those under the column name and those given directly
Supplied(kwargs, column_name) ==
    IF "computation_params" \notin DOMAIN kwargs THEN <<>>
    ELSE LET cp == kwargs.computation_params
         IN  [k \in DOMAIN cp \cap {"calculation_method", "n_bins"} |-> cp[k]] @@ (IF column_name \in DOMAIN cp THEN cp[column_name] ELSE <<>>)

\* C15: a KolmogorovSmirnovStatistic or WassersteinDistance constructed
\* with a calculation_method or an n_bins in computation_params uses the
\* value supplied, and 'auto' and 10,000 only for a parameter the caller
\* did not supply.
C15_ComputationParams ==
    (last.op = "construct" /\ m.cls \in ModeClasses) =>
        LET supplied == Supplied(last.arg.v[2], m.column_name)
        IN  /\ m.calculation_method = Some(Get(supplied, "calculation_method", "auto"))
            /\ m.n_bins = Some(Get(supplied, "n_bins", 10000))

\* the rounding allowed in a distance computed in fixed point
Tolerance == Scale \div 100

\* the incoming column has the distribution of the reference column over the
\* reference bins or labels of m0: bin by bin the same share of the rows,
\* and no incoming row outside the bins
SameDistribution(m0, reference, data) ==
    LET in_ref == CountOnRefBins(m0, reference)
        in_data == CountOnRefBins(m0, data)
    IN  /\ NRows(data.runs) > 0
        /\ SumSeq(in_data) = NRows(data.runs)
        /\ \A i \in DOMAIN in_ref : in_ref[i] * NRows(data.runs) = in_data[i] * NRows(reference.runs)

\* C16: the value calculate returns on a fitted JensenShannonDistance or
\* HellingerDistance lies in [0, 1] for any incoming column, and is 0
\* within the tolerance when the incoming column has the distribution of
\* the reference column over the reference bins or labels.
C16_UnitInterval ==
    (last.op = "calculate" /\ m.cls \in {"JensenShannonDistance", "HellingerDistance"} /\ m._reference_proba_in_bins # Unset) =>
        /\ last.st = "ok"
        /\ last.v.v # NaN
        /\ 0 <= last.v.v /\ last.v.v <= Scale + Tolerance
        /\ SameDistribution(m, Compared(m.cls, hist.reference.v), Compared(m.cls, last.arg.v)) => last.v.v <= Tolerance

\* a new JensenShannonDistance configured as m0 is
Fresh(m0) == JensenShannonDistanceInit([chunker |-> m0.chunker, threshold |-> m0.threshold])

\* two distances equal within the tolerance
Close(a, b) == Abs(a - b) <= Tolerance

\* fit on b and calculate on a, with the number of bins doane, returns v
\* within the tolerance
Swapped(m0, a, b, doane, v) ==
    \E f \in {MethodFit(Fresh(m0), b, doane)} :
        /\ f.st = "ok"
        /\ \E c \in {MethodCalculate(f.m, a)} : c.st = "ok" /\ Close(c.v.v, v)

\* C17 as stated: whatever the two samples, JensenShannonDistance fit on A
\* and calculated on B returns the value it returns fit on B and calculated
\* on A, within the tolerance.
C17_Symmetric ==
    (last.op = "calculate" /\ last.st = "ok" /\ m.cls = "JensenShannonDistance") =>
        \E doane \in DoaneChoices(m, last.arg.v) : Swapped(m, hist.reference.v, last.arg.v, doane, last.v.v)

\* C17, amended: JensenShannonDistance fit on A and calculated on B returns
\* the value it returns fit on B and calculated on A, within the tolerance,
\* when the two samples are columns of one dtype and fit treats both as
\* categorical.
C17_SymmetricOnLabels ==
    (last.op = "calculate" /\ last.st = "ok" /\ m.cls = "JensenShannonDistance" /\ m._treat_as_type = Some("cat") /\ last.arg.v.dtype = hist.reference.v.dtype) =>
        \A doane \in DoaneChoices(m, last.arg.v) :
            JensenShannonDistanceFit(Fresh(m), last.arg.v, doane).m._treat_as_type = Some("cat") => Swapped(m, hist.reference.v, last.arg.v, doane, last.v.v)

C17_Witness ==
    /\ last.op = "calculate"
    /\ last.st = "ok"
    /\ m.cls = "JensenShannonDistance"
    /\ m._treat_as_type = Some("cat")
    /\ hist.reference.v.dtype = "float64"
    /\ last.arg.v.dtype = "float64"
    /\ JensenShannonDistanceFit(Fresh(m), last.arg.v, 1).m._treat_as_type = Some("cat")
    /\ Len(m._bins.v) = 1
    /\ Len(JensenShannonDistanceFit(Fresh(m), last.arg.v, 1).m._bins.v) = 2
    /\ last.v.v > 0
    /\ Swapped(m, hist.reference.v, last.arg.v, 1, last.v.v)

\* the occurrence probability of a label in a column without missing rows,
\* 0 for a label the column does not have
Probability(runs, label) == IF CountOf(runs, label) = 0 THEN 0 ELSE Ratio(CountOf(runs, label), NRows(runs))

\* C18: LInfinityDistance.calculate returns the largest absolute difference
\* between the occurrence probability of a label in the reference column
\* and in the incoming column, over the labels of either column, the
\* missing rows of both removed and a label absent from a column having
\* probability 0 there.
C18_LargestDifference ==
    (last.op = "calculate" /\ m.cls = "LInfinityDistance" /\ IsSome(hist.reference)) =>
        LET ref == RemoveMissingData(hist.reference.v).runs
            data == RemoveMissingData(last.arg.v).runs
            union_labels == UniqueVals(ref) \cup UniqueVals(data)
        IN  union_labels # {} =>
                /\ last.st = "ok"
                /\ \A label \in union_labels : last.v.v >= Abs(Probability(ref, label) - Probability(data, label))
                /\ \E label \in union_labels : last.v.v = Abs(Probability(ref, label) - Probability(data, label))

C18_Witness ==
    /\ last.op = "calculate"
    /\ m.cls = "LInfinityDistance"
    /\ hist.reference = Some([dtype |-> "object", runs |-> BlockRuns(MaxRows, MaxRows, 0)])
    /\ last.arg = Some([dtype |-> "object", runs |-> BlockRuns(1, 0, 1)])
    /\ last.v = Some(Scale \div 2)

\* calculate was called on a fitted instance of a method that compares
\* labels, the reference column and the incoming column both have labels,
\* and no label of the one is a label of the other
DisjointLabels ==
    /\ last.op = "calculate"
    /\ IsSome(hist.reference)
    /\ m.cls = "LInfinityDistance" \/ (m.cls \in {"JensenShannonDistance", "HellingerDistance"} /\ m._treat_as_type = Some("cat"))
    /\ UniqueVals(Compared(m.cls, hist.reference.v).runs) # {}
    /\ UniqueVals(Compared(m.cls, last.arg.v).runs) # {}
    /\ UniqueVals(Compared(m.cls, hist.reference.v).runs) \cap UniqueVals(Compared(m.cls, last.arg.v).runs) = {}

StrictlyIncreasing(q) == \A i \in 1..(Len(q) - 1) : q[i] < q[i + 1]

\* C20: in the estimated mode of WassersteinDistance, for incoming data
\* with at least one value: edges are prepended exactly when the minimum is
\* below the first reference edge and appended exactly when the maximum is
\* above the last one; the extended grid increases strictly and covers the
\* minimum and the maximum; the reference frequencies extended with zeros
\* have as many entries as the histogram of the data on the extended grid,
\* one less than there are edges.
C20_ExtendedGrid ==
    (last.op = "calculate" /\ m.cls = "WassersteinDistance" /\ m._fitted = Some(TRUE) /\ CalculatesEstimated(m) /\ m._bin_edges # Unset /\ RemoveMissingData(last.arg.v).runs # <<>>) =>
        LET data == RemoveMissingData(last.arg.v).runs
            be == m._bin_edges.v
            min_chunk == SetMin(Values(data)) * be.den
            max_chunk == SetMax(Values(data)) * be.den
        IN  \E x \in {WassersteinExtension(m, data)} :
                /\ last.st = "ok"
                /\ Len(x.left) >= 1 <=> min_chunk < be.e[1]
                /\ Len(x.right) >= 1 <=> max_chunk > be.e[Len(be.e)]
                /\ x.updated_edges.e = x.left \o be.e \o x.right
                /\ StrictlyIncreasing(x.updated_edges.e)
                /\ x.updated_edges.e[1] <= min_chunk
                /\ x.updated_edges.e[Len(x.updated_edges.e)] >= max_chunk
                /\ Len(x.updated_ref_binned_pdf) = Len(x.updated_edges.e) - 1
                /\ Len(x.chunk_binned_pdf) = Len(x.updated_edges.e) - 1
                /\ \A i \in DOMAIN x.updated_ref_binned_pdf : (i <= Len(x.left) \/ i > Len(x.left) + Len(m._ref_rel_freqs.v)) => x.updated_ref_binned_pdf[i] = 0

C20_Witness ==
    /\ last.op = "calculate"
    /\ last.st = "ok"
    /\ m.cls = "WassersteinDistance"
    /\ CalculatesEstimated(m)
    /\ m._bin_edges # Unset
    /\ Values(last.arg.v.runs) = {0, MaxValue}
    /\ Len(WassersteinExtension(m, RemoveMissingData(last.arg.v).runs).left) >= 2
    /\ Len(WassersteinExtension(m, RemoveMissingData(last.arg.v).runs).right) >= 2
    /\ last.v.v > 0

\* the events of a fit call on a reference of n chunks that returned
FitEvents(n) == <<Event("_fit", 0), Event("split", 0)>> \o [i \in 1..n |-> Event("_calculate", i)] \o <<Event("calculate_threshold_values", 0)>>

\* the instance as self._fit leaves it, for the fit call in progress
AfterFitStep == FitImpl(frame.before, frame.reference_data, frame.doane).m

\* C21: Method.fit runs _fit on the whole reference column first, then
\* splits the reference data (with the timestamps when given), then computes
\* the statistic of every reference chunk in chunk order against the state
\* _fit stored, and only then calls the threshold evaluator, once, with the
\* vector of the chunk values and the limits of the method; its result
\* becomes the thresholds, and fit returns the instance it was called on.
C21_FitOrder ==
    /\ frame.pc \in {"split", "calculate"} =>
        /\ frame.trace[1] = Event("_fit", 0)
        /\ \A i \in 1..Len(frame.trace) : frame.trace[i].e # "calculate_threshold_values"
        /\ m.lower_threshold_value = frame.before.lower_threshold_value
        /\ m.upper_threshold_value = frame.before.upper_threshold_value
    /\ frame.pc = "calculate" =>
        /\ frame.columns = {"reference_data"} \cup (IF frame.timestamps THEN {"timestamps"} ELSE {})
        /\ frame.chunks = Split(frame.before.chunker, frame.reference_data.runs)
        /\ \A i \in 1..Len(frame.reference_chunk_results) :
            With(CalculateImpl(AfterFitStep, [dtype |-> frame.reference_data.dtype, runs |-> frame.chunks[i]]), LAMBDA r :
                r.st = "ok" /\ frame.reference_chunk_results[i] = r.v.v)
    /\ frame.pc = "return" =>
        /\ frame.trace = FitEvents(Len(Split(frame.before.chunker, frame.reference_data.runs)))
        /\ With(CalculateThresholdValues(frame.before.threshold, frame.reference_chunk_results, frame.before.lower_threshold_value_limit, frame.before.upper_threshold_value_limit), LAMBDA t :
                m.lower_threshold_value = t[1] /\ m.upper_threshold_value = t[2])
        /\ With(MethodFit(frame.before, frame.reference_data, frame.doane), LAMBDA r : r.st = "ok" /\ r.m = m)
    /\ (last.op = "fit" /\ last.st = "ok") =>
        /\ last.v = Some(m)
        /\ last.arg.v.trace = FitEvents(Len(Split(last.m_before.chunker, last.arg.v.reference_data.runs)))

\* a fit call on a reference of several chunks reached its return
C21_Witness ==
    /\ frame.pc = "return"
    /\ Len(frame.chunks) >= 2
    /\ \E i, j \in 1..Len(frame.reference_chunk_results) : frame.reference_chunk_results[i] # frame.reference_chunk_results[j]
    /\ frame.timestamps
\* C22: for KolmogorovSmirnovStatistic and WassersteinDistance, whatever
\* the calculation_method (a string other than 'auto', 'exact' and
\* 'estimated' included) and the reference size, the branch calculate takes
\* is the one whose state the last fit stored: the exact branch only with
\* the raw sample of that fit stored, the estimated branch only with its
\* histogram and edges stored, also after a refit on another size.
C22_BranchOfLastFit ==
    (m # NoInstance /\ m.cls \in ModeClasses /\ IsSome(hist.reference)) =>
        LET ref == RemoveMissingData(hist.reference.v).runs
        IN  IF CalculatesEstimated(m)
            THEN /\ ~FitsExact(m, ref)
                 /\ IsSome(m._ref_rel_freqs)
                 /\ IF m.cls = "WassersteinDistance" THEN m._bin_edges = Some(HistogramBinEdges(ref, m.n_bins.v)) ELSE IsSome(m._qts) /\ m._qts.v.e[1] = SetMin(Values(ref)) * m._qts.v.den
            ELSE /\ FitsExact(m, ref)
                 /\ m._reference_data = Some(ref)
\* C23: Method.fit is all-or-nothing: when fit raises (in _fit, in the
\* chunking, in the calculation of a reference chunk or in the derivation
\* of the thresholds) the fitted flag, the reference state and the
\* threshold values are what they were before the call, so an instance
\* whose only fit failed still raises NotFittedException on calculate.
C23_AllOrNothing ==
    (last.op = "fit" /\ last.st # "ok") =>
        /\ \A f \in DOMAIN m \cap (ReferenceState \cup {"lower_threshold_value", "upper_threshold_value"}) : m[f] = last.m_before[f]
        /\ last.m_before._fitted = Some(FALSE) => \A data \in Columns : MethodCalculate(m, data).st = "NotFittedException"
\* what a wrapper makes of the outcome of the method it wraps, re-raising
\* the exceptions of the set unchanged
Wrapped(inner, reraised) ==
    /\ calc = inner.c
    /\ inner.st = "ok" => last.st = "ok" /\ last.v = inner.v
    /\ inner.st \in reraised => last.st = inner.st /\ last.cause = inner.st
    /\ inner.st \notin reraised \cup {"ok"} => last.st = "CalculatorException" /\ last.cause = inner.st
    /\ last.st # "ok" => last.v = None

\* C24: AbstractCalculator.fit re-raises InvalidArgumentsException and
\* InvalidReferenceDataException unchanged and turns every other exception
\* into CalculatorException; AbstractCalculator.calculate re-raises
\* InvalidArgumentsException and CalculatorNotFittedException unchanged and
\* turns every other exception into CalculatorException; _fit and
\* _calculate run once, and no result is returned after an exception.
C24_Reraise ==
    /\ last.op = "calculator.fit" => Wrapped(CalculatorFitImpl(last.calc_before, last.arg.v), {"InvalidArgumentsException", "InvalidReferenceDataException"})
    /\ last.op = "calculator.calculate" =>
            Wrapped(IF IsSome(last.arg.v) THEN CalculatorCalculateImpl(last.calc_before, last.arg.v) ELSE CalcRaise("AttributeError", last.calc_before, "AttributeError"),
                    {"InvalidArgumentsException", "CalculatorNotFittedException"})

\* fit turned the CalculatorNotFittedException of _fit into a
\* CalculatorException
C24_Witness ==
    /\ last.op = "calculator.fit"
    /\ last.st = "CalculatorException"
    /\ last.cause = "CalculatorNotFittedException"

\* C25: after fit(reference) and one or more calculate calls, the result
\* stored and returned by MissingValuesCalculator and
\* UnseenValuesCalculator is the reference rows fit produced followed by
\* exactly the rows of the most recent calculate, of period 'analysis':
\* the rows of earlier calculate calls are gone, the reference rows are
\* neither lost nor duplicated.
C25_ReferenceThenLatest ==
    (last.op = "calculator.calculate" /\ last.st = "ok" /\ calc.cls # "Subclass" /\ IsSome(hist.fit_rows)) =>
        With(ChunkRows(last.calc_before, last.arg.v.v), LAMBDA latest :
            /\ calc.result = Some(hist.fit_rows.v \o latest)
            /\ last.v = calc.result
            /\ \A i \in DOMAIN hist.fit_rows.v : hist.fit_rows.v[i].period = "reference"
            /\ \A i \in DOMAIN latest : latest[i].period = "analysis"
            /\ Len(latest) = Len(Split(calc.chunker, last.arg.v.v[calc.column_names[1]].runs)))

\* a second calculate on a fitted calculator returned
C25_Witness ==
    /\ last.op = "calculator.calculate"
    /\ last.st = "ok"
    /\ calc.cls = "UnseenValuesCalculator"
    /\ IsSome(hist.fit_rows)
    /\ last.calc_before.result # hist.fit_rows
    /\ Len(calc.result.v) > Len(hist.fit_rows.v) + 1

\* C26: after every fit that succeeded, on a calculator that was fitted or
\* used before too, the stored result has exactly one row for each chunk
\* of the reference data of that fit, all of period 'reference', and no
\* row of an earlier fit or calculate.
C26_OneRowPerReferenceChunk ==
    (last.op = "calculator.fit" /\ last.st = "ok" /\ calc.cls # "Subclass") =>
        With(ChunkRows(calc, last.arg.v.v), LAMBDA rows :
            /\ Len(calc.result.v) = Len(Split(calc.chunker, last.arg.v.v[calc.column_names[1]].runs))
            /\ calc.result.v = [i \in DOMAIN rows |-> [rows[i] EXCEPT !.period = "reference"]])
\* the events of the run for calculator i of the configuration
EventsOf(i, names) == SelectSeq(run.events, LAMBDA ev : ev.calculator = i /\ ev.e \in names)

\* the reading of the data raised
ReadFailed == \E j \in DOMAIN run.events : run.events[j].calculator = 0 /\ run.events[j].e = "on_fail"

\* the run is over
RunDone == run.pc = "done"

\* C27: in run(), with callbacks that do not raise, an exception raised
\* while one calculator is processed (unknown type, writers or store
\* setup, construction, fit, calculate or estimate, write) does not stop
\* the run: on_fail is invoked once with that exception, every later
\* enabled calculator is still processed, in configuration order,
\* on_run_complete is invoked exactly once, after the last calculator,
\* run() returns without raising, and context.run_success is False from
\* the first failure on and never True again.
C27_FailureDoesNotStopRun ==
    (run.pc # "idle" /\ ~ReadFailed /\ run.pc # "except") =>
        /\ \A j \in DOMAIN run.events :
            LET ev == run.events[j]
            IN  /\ (ev.exc # "" /\ ev.e # "on_fail") =>
                       IF j = Len(run.events) THEN run.pc = "fail" /\ run.exc = ev.e
                       ELSE run.events[j + 1].e = "on_fail" /\ run.events[j + 1].exc = ev.e /\ run.events[j + 1].calculator = ev.calculator
                /\ ev.e = "on_fail" => Len(EventsOf(ev.calculator, {"on_fail"})) = 1
                /\ j < Len(run.events) => ev.calculator <= run.events[j + 1].calculator \/ run.events[j + 1].e = "on_run_complete"
                /\ ev.context.run_success <=> \A k \in 1..j : run.events[k].e # "on_fail"
                /\ ev.e = "on_run_complete" => j = Len(run.events) /\ RunDone
        /\ run.context.run_success <=> \A k \in DOMAIN run.events : run.events[k].e # "on_fail"
        /\ run.pc = "fail" => run.exc # ""
        /\ RunDone =>
            /\ run.returned = "returned"
            /\ run.events # <<>> /\ run.events[Len(run.events)].e = "on_run_complete"
            /\ \A i \in DOMAIN run.calculators :
                   Len(EventsOf(i, {"on_fail", "on_calculator_complete"})) = IF run.calculators[i].enabled THEN 1 ELSE 0

\* the first calculator failed and the second one was completed
C27_Witness ==
    /\ RunDone
    /\ Len(EventsOf(1, {"on_fail"})) = 1
    /\ Len(EventsOf(2, {"on_calculator_complete"})) = 1
\* the steps calculator i of the configuration has added to the context:
\* the step numbers seen by what was done for it
StepsOf(i) == {run.events[j].context.current_step : j \in {k \in DOMAIN run.events : run.events[k].calculator = i /\ run.events[k].e # "on_fail"}}

RECURSIVE StepsUpTo(_)
\* the steps added by the first n calculators
StepsUpTo(n) == IF n = 0 THEN 0 ELSE Cardinality(StepsOf(n)) + StepsUpTo(n - 1)

\* C28: throughout run(), 0 <= context.current_step <=
\* context.total_steps, and total_steps is three times the number of
\* enabled calculators; a disabled calculator adds no step and an enabled
\* one at most three (before load-or-fit, calculate and write); when
\* on_run_complete fires, current_step = total_steps exactly when every
\* enabled calculator reached its write step.
C28_Steps ==
    (run.pc # "idle") =>
        /\ run.context.total_steps = 3 * Cardinality({i \in DOMAIN run.calculators : run.calculators[i].enabled})
        /\ 0 <= run.context.current_step /\ run.context.current_step <= run.context.total_steps
        /\ \A j \in DOMAIN run.events : 0 <= run.events[j].context.current_step /\ run.events[j].context.current_step <= run.events[j].context.total_steps
                                         /\ run.events[j].context.total_steps = run.context.total_steps
        /\ \A i \in DOMAIN run.calculators : Cardinality(StepsOf(i)) <= (IF run.calculators[i].enabled THEN 3 ELSE 0)
        /\ run.context.current_step = StepsUpTo(Len(run.calculators))
        /\ \A j \in DOMAIN run.events : run.events[j].e = "on_run_complete" =>
               (run.events[j].context.current_step = run.events[j].context.total_steps
                    <=> \A i \in DOMAIN run.calculators : run.calculators[i].enabled => EventsOf(i, {"on_write"}) # <<>>)

\* a run with a disabled calculator and an enabled one was completed with
\* every step taken
C28_Witness ==
    /\ RunDone
    /\ run.returned = "returned"
    /\ \E i \in DOMAIN run.calculators : ~run.calculators[i].enabled
    /\ run.context.current_step = 3
    /\ run.context.total_steps = 3
\* the place of a callback in the order of the claim
Rank(e) == CASE e = "on_fit" -> 1 [] e = "on_calculate" -> 2 [] e = "on_write" -> 3 [] e = "on_calculator_complete" -> 4 [] OTHER -> 0

\* C29: for each enabled calculator the callbacks fire at most once each
\* and in the order on_fit, on_calculate, on_write,
\* on_calculator_complete, each before the action of its step
\* (on_calculator_complete after the last write); on_fit fires only when
\* a new calculator is created and fitted, not when it is loaded from the
\* store; and when a step raises, none of the later callbacks of that
\* calculator fire.
C29_CallbackOrder ==
    (run.pc # "idle") =>
        /\ \A j, k \in DOMAIN run.events :
               (j < k /\ run.events[j].calculator = run.events[k].calculator /\ Rank(run.events[j].e) > 0 /\ Rank(run.events[k].e) > 0)
                   => Rank(run.events[j].e) < Rank(run.events[k].e)
        /\ \A j \in DOMAIN run.events :
            LET ev == run.events[j]
                before == {run.events[k].e : k \in {x \in 1..(j - 1) : run.events[x].calculator = ev.calculator}}
                after == {run.events[k].e : k \in {x \in (j + 1)..Len(run.events) : run.events[x].calculator = ev.calculator}}
            IN  /\ ev.calculator > 0 => run.calculators[ev.calculator].enabled
                /\ ev.e = "calc.fit" => "on_fit" \in before
                /\ ev.e = "calc.calculate" => "on_calculate" \in before
                /\ ev.e = "writer.write" => "on_write" \in before /\ "on_calculator_complete" \notin before
                /\ ev.e = "on_calculator_complete" => Len(EventsOf(ev.calculator, {"writer.write"})) = run.calculators[ev.calculator].outputs
                /\ ev.e = "on_fit" => /\ "calc_cls" \in before
                                      /\ run.calculators[ev.calculator].store # "found"
                                      /\ j < Len(run.events) /\ run.events[j + 1].e = "calc.fit" /\ run.events[j + 1].calculator = ev.calculator
                /\ (ev.e = "calc_cls" /\ ev.exc = "") => "on_fit" \in after
                /\ (ev.exc # "" /\ ev.e # "on_fail") => after \subseteq {"on_fail"}
                /\ ev.e = "on_fail" => after = {}

\* a calculator loaded from the store and a calculator created were both
\* completed
C29_Witness ==
    /\ RunDone
    /\ \E i, j \in DOMAIN run.calculators :
        /\ run.calculators[i].store = "found"
        /\ Len(EventsOf(i, {"on_fit"})) = 0
        /\ Len(EventsOf(i, {"on_calculator_complete"})) = 1
        /\ Len(EventsOf(j, {"on_fit", "on_calculate", "on_write", "on_calculator_complete"})) = 4

\* C30: context.current_calculator_success describes the calculator being
\* processed: it is True whenever on_calculator_complete fires, and the
\* failure of an earlier calculator does not leave it False while a later
\* calculator is processed.
C30_CurrentCalculatorSuccess ==
    (run.pc # "idle") =>
        /\ \A j \in DOMAIN run.events :
               run.events[j].e = "on_calculator_complete" => run.events[j].context.current_calculator_success
        /\ \A j \in DOMAIN run.events :
               (run.events[j].calculator > 0 /\ ~run.events[j].context.current_calculator_success) => EventsOf(run.events[j].calculator, {"on_fail"}) # <<>>
====
